---------------------------- MODULE Spec2Model ----------------------------
(***************************************************************************)
(* Model of codex-rs/core/src/chat_completions.rs: the retrying request    *)
(* dispatch loops of the two dialects (stream_chat_completions and         *)
(* stream_github_copilot_completions), the SSE decoders                    *)
(* (process_chat_sse, process_github_copilot_sse) that feed a bounded      *)
(* mpsc channel, and the pull-based AggregatedChatStream adapter.          *)
(*                                                                         *)
(* These specifications share the module's variables:                      *)
(*   Spec         the dispatch calls of one process, each from entry to    *)
(*                its return value, with the token exchanges they make     *)
(*                (LiveSpec: the same, every enabled step being taken);    *)
(*   EncoderSpec  a call from its entry to the top of its loop, over the   *)
(*                prompts it encodes into the request body;                *)
(*   CallSpec     one dispatch call followed by the decoder it spawns      *)
(*                (LiveCallSpec: the same, the caller receiving on);       *)
(*   DecoderSpec  one spawned decoder task, its channel and its receiver;  *)
(*   AggSpec      AggregatedChatStream::poll_next over an arbitrary        *)
(*                wrapped stream of Result<ResponseEvent>.                 *)
(* Texts are sequences of characters, so concatenation is order-sensitive. *)
(***************************************************************************)
EXTENDS Integers, Sequences, FiniteSets, TLC

VARIABLES
  \* ---- dispatch call ----
  prompt,             \* the call's Prompt: its instructions and its input items
  model,              \* the call's model name
  payload,            \* the JSON body the call has built for its POST
  dialect,            \* "generic" | "copilot"  (provider.name == "GitHub Copilot")
  api_key,            \* provider.api_key(): "none" or a key
  max_retries,        \* *OPENAI_REQUEST_MAX_RETRIES
  d_pc,               \* "start" | "loop" | "inflight" | "sleep" | "done" |
                      \* "panicked"
  attempt,            \* the loop's attempt counter
  api_key_str,        \* the bearer credential the loop sends with
  sends,              \* the bearer credential of every POST sent, in order
  responses,          \* the outcome of every POST, in order
  d_result,           \* the call's return value
  delay,              \* the Duration the loop last handed to tokio::time::sleep
  now,                \* the clock, in seconds: what Utc::now() reads
  calls,              \* how many dispatch calls the process has started
  token_log,          \* every get_github_copilot_api_token() invocation, in order
  \* ---- decoder task, channel, receiver ----
  sse_dialect,        \* which decoder runs: "generic" | "copilot"
  dec_pc,             \* "wait" | "send" | "done"
  dec_item,           \* the item a suspended tx_event.send holds
  dec_then,           \* where the task goes once that send returns
  frames,             \* every result of stream.next() so far, in order
  waited,             \* ticks elapsed in the current timeout(idle_timeout, ..)
  queue,              \* the mpsc channel's buffered items
  rx_alive,           \* the receiver has not been dropped
  received,           \* what rx_event.recv() has returned, in order
  rx_eof,             \* recv() has returned None
  to_come,            \* how many more results the byte stream will deliver
  idle_for,           \* ticks since the byte stream last delivered a result
  elapsed,            \* ticks since the decoder was spawned, up to IdleTicks
  \* ---- aggregation adapter ----
  cumulative,         \* AggregatedChatStream.cumulative
  pending_completed,  \* AggregatedChatStream.pending_completed
  inner_log,          \* every item the wrapped stream has produced, in order
  inner_done,         \* the wrapped stream has returned None
  out_log,            \* every item poll_next has yielded, in order
  last_poll           \* the latest poll_next call: what it returned, and how
                      \* many times it polled the wrapped stream

dvars == <<prompt, model, payload, dialect, api_key, max_retries, d_pc, attempt, api_key_str, sends,
           responses, d_result, delay, now, calls, token_log>>
svars == <<sse_dialect, dec_pc, dec_item, dec_then, frames, waited, queue,
           rx_alive, received, rx_eof, to_come, idle_for, elapsed>>
avars == <<cumulative, pending_completed, inner_log, inner_done, out_log,
           last_poll>>
vars == <<dvars, svars, avars>>

-----------------------------------------------------------------------------
(* Bounds of the model *)

\* max_retries ranges over 0..MaxRetries
MaxRetries == 2
\* the server delivers at most MaxFrames further stream results to a decoder
MaxFrames == 2
\* the idle timeout, in clock ticks
IdleTicks == 2
\* the wrapped stream of the adapter produces at most MaxInner items
MaxInner == 3
\* the wrapped stream has at most MaxBurst items ready in a row within one poll_next
MaxBurst == 2
\* the process makes at most MaxCalls dispatch calls
MaxCalls == 2
\* the response stream of a decoder spawned by a modelled call delivers at
\* most StreamFrames results
StreamFrames == 2
\* a prompt has at most MaxItems input items
MaxItems == 2

(* Program constants *)
TOO_MANY_REQUESTS == 429
UNAUTHORIZED == 401
QueueCapacity == 16
\* Duration::from_secs(5 * 60)
BufferSecs == 300

Chars == {"a", "b"}
EmptyText == <<>>

-----------------------------------------------------------------------------
(* Values *)

\* A placeholder item, for fields that do not apply
NoItem == [kind |-> "Other", role |-> "", content |-> <<>>]
\* Option::None where an Option<ResponseEvent> is held
None == [type |-> "None", item |-> NoItem, response_id |-> "", err |-> ""]

\* ContentItem
OutputText(t) == [kind |-> "OutputText", text |-> t]
InputText(t) == [kind |-> "InputText", text |-> t]
\* ContentItem::InputImage { image_url }
InputImage(u) == [kind |-> "InputImage", text |-> u]

\* ResponseItem
Message(r, c) == [kind |-> "Message", role |-> r, content |-> c]
OtherItem == [kind |-> "Other", role |-> "", content |-> <<>>]

\* Result<ResponseEvent>
OutputItemDone(item) ==
  [type |-> "OutputItemDone", item |-> item, response_id |-> "", err |-> ""]
Completed(id) ==
  [type |-> "Completed", item |-> NoItem, response_id |-> id, err |-> ""]
\* Err(CodexErr::Stream(detail))
StreamErr(d) ==
  [type |-> "Err", item |-> NoItem, response_id |-> "", err |-> d]

\* Option<T>: <<>> is None, <<x>> is Some(x)
Some(x) == <<x>>

-----------------------------------------------------------------------------
(* The dispatch call *)

Dialects == {"generic", "copilot"}
Statuses == {200, 301, 404, 429, 500, 503}
Bodies == {"b1", "b2"}

is_success(s) == 200 <= s /\ s <= 299
is_server_error(s) == 500 <= s /\ s <= 599

\* Unsigned integers beyond the checker's machine word: little-endian
\* sequences of NLimbs digits in base Limb.
Limb == 10000
NLimbs == 6
Zero == <<0, 0, 0, 0, 0, 0>>
\* u64::MAX = 18446744073709551615, and 2^64
U64_MAX == <<1615, 955, 737, 6744, 1844, 0>>
TWO_64 == <<1616, 955, 737, 6744, 1844, 0>>

RECURSIVE mul_from(_, _, _, _)
mul_from(n, k, i, carry) ==
  IF i > Len(n) THEN <<>>
  ELSE LET v == n[i] * k + carry
       IN <<v % Limb>> \o mul_from(n, k, i + 1, v \div Limb)
\* n * k in the integers, for a small k
mul(n, k) == mul_from(n, k, 1, 0)

RECURSIVE le_from(_, _, _)
le_from(a, b, i) ==
  IF i = 0 THEN TRUE
  ELSE IF a[i] < b[i] THEN TRUE
  ELSE IF a[i] > b[i] THEN FALSE
  ELSE le_from(a, b, i - 1)
\* a <= b
le(a, b) == le_from(a, b, Len(a))

RECURSIVE sub_from(_, _, _, _)
sub_from(a, b, i, borrow) ==
  IF i > Len(a) THEN <<>>
  ELSE LET v == a[i] - b[i] - borrow
       IN IF v < 0 THEN <<v + Limb>> \o sub_from(a, b, i + 1, 1)
          ELSE <<v>> \o sub_from(a, b, i + 1, 0)
\* a - b, for a >= b
sub(a, b) == sub_from(a, b, 1, 0)

RECURSIVE mod_from(_, _)
mod_from(n, k) ==
  IF k = 0 THEN n
  ELSE LET m == mul(TWO_64, k)
       IN mod_from(IF le(m, n) THEN sub(n, m) ELSE n, k \div 2)
\* n modulo 2^64, for n < 1024 * 2^64
wrapping(n) == mod_from(n, 512)

\* The Retry-After header of a response: absent, a value that is no decimal
\* u64 (an HTTP date), or a number of seconds.
NoRetryAfter == [h |-> "absent", secs |-> Zero]
HttpDate == [h |-> "date", secs |-> Zero]
Seconds(n) == [h |-> "secs", secs |-> n]
\* 120; 18446744073709551 = u64::MAX div 1000; and that plus one
TwoMinutes == <<120, 0, 0, 0, 0, 0>>
LargestExact == <<9551, 7370, 7440, 8446, 1, 0>>
SmallestOverflowing == <<9552, 7370, 7440, 8446, 1, 0>>

TransportFailure ==
  [kind |-> "transport", status |-> 0, body |-> "", body_ok |-> TRUE,
   retry_after |-> NoRetryAfter]
HttpResponse(s, b, ok, ra) ==
  [kind |-> "http", status |-> s, body |-> b, body_ok |-> ok, retry_after |-> ra]

\* The Retry-After headers the model's server attaches to a retryable status.
RetryAfterOf(s) ==
  IF s = TOO_MANY_REQUESTS
  THEN {NoRetryAfter, HttpDate, Seconds(TwoMinutes), Seconds(SmallestOverflowing)}
  ELSE IF s = 503 THEN {Seconds(LargestExact)}
  ELSE {NoRetryAfter}

\* What one send().await can resolve to.  The body is read only for a
\* non-retryable status and the header only for a retryable one, so only
\* those responses vary in them.
SendOutcomes ==
  {TransportFailure}
    \cup {HttpResponse(s, "b1", TRUE, NoRetryAfter) : s \in {x \in Statuses : is_success(x)}}
    \cup UNION {{HttpResponse(s, "b1", TRUE, ra) : ra \in RetryAfterOf(s)} :
                  s \in {x \in Statuses : x = TOO_MANY_REQUESTS \/ is_server_error(x)}}
    \cup {HttpResponse(s, b, ok, NoRetryAfter) :
            s \in {x \in Statuses : ~(is_success(x) \/ x = TOO_MANY_REQUESTS \/ is_server_error(x))},
            b \in Bodies, ok \in BOOLEAN}

NoResult == [kind |-> "none", status |-> 0, body |-> ""]
OkStream == [kind |-> "Stream", status |-> 0, body |-> ""]
UnexpectedStatus(s, b) == [kind |-> "UnexpectedStatus", status |-> s, body |-> b]
RetryLimit(s) == [kind |-> "RetryLimit", status |-> s, body |-> ""]
TransportErr == [kind |-> "Transport", status |-> 0, body |-> ""]
AuthErr == [kind |-> "Auth", status |-> 0, body |-> ""]

\* (res.text().await).unwrap_or_default()
text_unwrap_or_default(resp) == IF resp.body_ok THEN resp.body ELSE ""

\* Durations: what the loop hands to tokio::time::sleep.
NoDelay == [kind |-> "none", millis |-> Zero, attempt |-> 0]
from_millis(ms) == [kind |-> "millis", millis |-> ms, attempt |-> 0]
\* What the call backoff(attempt) returns
backoff(att) == [kind |-> "backoff", millis |-> Zero, attempt |-> att]
\* `s * 1_000` has overflowed: the multiplication panics
Overflowed == [kind |-> "panic", millis |-> Zero, attempt |-> 0]

\* .and_then(|v| v.to_str().ok()).and_then(|s| s.parse::<u64>().ok())
retry_after_secs(res) ==
  IF res.retry_after.h = "secs" /\ le(res.retry_after.secs, U64_MAX)
  THEN Some(res.retry_after.secs)
  ELSE <<>>

\* `let delay = ...` of either loop, for a response that is retried.  The
\* u64 product, when it overflows, panics in a build with overflow checks
\* and wraps modulo 2^64 in one without.
retry_delay(att, res) ==
  IF res.kind = "http"
  THEN IF retry_after_secs(res) # <<>>
       THEN LET p == mul(retry_after_secs(res)[1], 1000)
            IN IF le(p, U64_MAX) THEN {from_millis(p)}
               ELSE {Overflowed, from_millis(wrapping(p))}
       ELSE {backoff(att)}
  ELSE {backoff(att)}

\* An encoder that takes the texts of InputText items only.
RECURSIVE message_text_input_only(_)
message_text_input_only(content) ==
  IF content = <<>> THEN EmptyText
  ELSE (IF Head(content).kind = "InputText"
        THEN Head(content).text ELSE EmptyText)
         \o message_text_input_only(Tail(content))

\* The inner `for c in content` loop: the texts of the InputText and
\* OutputText items, in order; any other ContentItem adds nothing.
RECURSIVE message_text(_)
message_text(content) ==
  IF content = <<>> THEN EmptyText
  ELSE (IF Head(content).kind \in {"InputText", "OutputText"}
        THEN Head(content).text ELSE EmptyText) \o message_text(Tail(content))

\* The `for item in &prompt.input` loop: one {"role", "content"} entry per
\* ResponseItem::Message, in order; any other ResponseItem is passed over.
RECURSIVE input_messages(_)
input_messages(input) ==
  IF input = <<>> THEN <<>>
  ELSE (IF Head(input).kind = "Message"
        THEN <<[role |-> Head(input).role, content |-> message_text(Head(input).content)]>>
        ELSE <<>>) \o input_messages(Tail(input))

\* The `messages` vector: the system entry, then the input's entries.
build_messages(p) ==
  <<[role |-> "system", content |-> p.full_instructions]>> \o input_messages(p.input)

\* No body built yet.
NoPayload ==
  [model |-> "", messages |-> <<>>, stream |-> FALSE, intent |-> <<>>,
   temperature |-> <<>>, n |-> <<>>]
\* json!({"model": model, "messages": messages, "stream": true})
chat_payload(p, mdl) ==
  [model |-> mdl, messages |-> build_messages(p), stream |-> TRUE, intent |-> <<>>,
   temperature |-> <<>>, n |-> <<>>]
\* json!({"intent": true, "model": model_to_use, "messages": messages,
\*        "stream": true, "temperature": 0.1, "n": 1})
copilot_payload(p, mdl) ==
  [model |-> IF mdl = "" THEN "gpt-4" ELSE mdl, messages |-> build_messages(p),
   stream |-> TRUE, intent |-> Some(TRUE), temperature |-> Some("0.1"), n |-> Some(1)]

\* The content vectors, roles and input items the model's prompts are made of.
Contents ==
  {<<>>,
   <<InputText(<<"a">>)>>,
   <<InputText(<<"a">>), OutputText(<<"b">>)>>,
   <<OutputText(<<"b">>), InputText(<<"a">>)>>,
   <<InputImage("url")>>,
   <<InputText(<<"a">>), InputImage("url"), OutputText(<<"b">>)>>}
Items ==
  {Message("user", c) : c \in Contents}
    \cup {Message("assistant", <<OutputText(<<"b">>)>>), OtherItem}
RECURSIVE SeqsUpTo(_, _)
SeqsUpTo(S, n) ==
  IF n = 0 THEN {<<>>}
  ELSE SeqsUpTo(S, n - 1)
         \cup {Append(q, x) : q \in {r \in SeqsUpTo(S, n - 1) : Len(r) = n - 1}, x \in S}
Prompt(instr, input) == [full_instructions |-> instr, input |-> input]
Prompts == {Prompt(<<"a", "b">>, input) : input \in SeqsUpTo(Items, MaxItems)}
Models == {"", "m"}
\* The prompt of the calls whose retries and streams the model follows.
OnePrompt == Prompt(<<"a", "b">>, <<Message("user", <<InputText(<<"a">>)>>)>>)

Return(r) == [pc |-> "done", result |-> r]
SleepThenRetry == [pc |-> "sleep", result |-> NoResult]

\* A dispatch loop that gives up one attempt early.
chat_on_response_early(att, maxr, res) ==
  IF res.kind = "http" /\ is_success(res.status) THEN Return(OkStream)
  ELSE IF res.kind = "http" THEN
    IF ~(res.status = TOO_MANY_REQUESTS \/ is_server_error(res.status))
    THEN Return(UnexpectedStatus(res.status, text_unwrap_or_default(res)))
    ELSE IF att >= maxr THEN Return(RetryLimit(res.status))
    ELSE SleepThenRetry
  ELSE IF att >= maxr THEN Return(TransportErr)
  ELSE SleepThenRetry

\* A dispatch loop that reports the retry ceiling for a failed send as well.
chat_on_response_transport_as_limit(att, maxr, res) ==
  IF res.kind = "http" /\ is_success(res.status) THEN Return(OkStream)
  ELSE IF res.kind = "http" THEN
    IF ~(res.status = TOO_MANY_REQUESTS \/ is_server_error(res.status))
    THEN Return(UnexpectedStatus(res.status, text_unwrap_or_default(res)))
    ELSE IF att > maxr THEN Return(RetryLimit(res.status))
    ELSE SleepThenRetry
  ELSE IF att > maxr THEN Return(RetryLimit(0))
  ELSE SleepThenRetry

\* The `match res` of stream_chat_completions.
chat_on_response(att, maxr, res) ==
  IF res.kind = "http" /\ is_success(res.status) THEN Return(OkStream)
  ELSE IF res.kind = "http" THEN
    IF ~(res.status = TOO_MANY_REQUESTS \/ is_server_error(res.status))
    THEN Return(UnexpectedStatus(res.status, text_unwrap_or_default(res)))
    ELSE IF att > maxr THEN Return(RetryLimit(res.status))
    ELSE SleepThenRetry
  ELSE IF att > maxr THEN Return(TransportErr)
  ELSE SleepThenRetry

\* A dispatch loop that tests the retry ceiling before the status class.
copilot_on_response_limit_first(att, maxr, res) ==
  IF res.kind = "http" /\ is_success(res.status) THEN Return(OkStream)
  ELSE IF res.kind = "http" THEN
    IF att > maxr THEN Return(RetryLimit(res.status))
    ELSE IF ~(res.status = TOO_MANY_REQUESTS \/ is_server_error(res.status))
    THEN Return(UnexpectedStatus(res.status, text_unwrap_or_default(res)))
    ELSE SleepThenRetry
  ELSE IF att > maxr THEN Return(TransportErr)
  ELSE SleepThenRetry

\* A dispatch loop that hands a refused request over to the decoder.
copilot_on_response_streams_failure(att, maxr, res) ==
  IF res.kind = "http" /\ is_success(res.status) THEN Return(OkStream)
  ELSE IF res.kind = "http" THEN
    IF ~(res.status = TOO_MANY_REQUESTS \/ is_server_error(res.status))
    THEN Return(OkStream)
    ELSE IF att > maxr THEN Return(RetryLimit(res.status))
    ELSE SleepThenRetry
  ELSE IF att > maxr THEN Return(TransportErr)
  ELSE SleepThenRetry

\* The `match res` of stream_github_copilot_completions.
copilot_on_response(att, maxr, res) ==
  IF res.kind = "http" /\ is_success(res.status) THEN Return(OkStream)
  ELSE IF res.kind = "http" THEN
    IF ~(res.status = TOO_MANY_REQUESTS \/ is_server_error(res.status))
    THEN Return(UnexpectedStatus(res.status, text_unwrap_or_default(res)))
    ELSE IF att > maxr THEN Return(RetryLimit(res.status))
    ELSE SleepThenRetry
  ELSE IF att > maxr THEN Return(TransportErr)
  ELSE SleepThenRetry

\* GithubCopilotToken::is_valid, with a `<=` for its `<`.
is_valid_inclusive(expires_at, t) == t <= expires_at - BufferSecs

\* GithubCopilotToken::is_valid at clock reading t.
is_valid(expires_at, t) == t < expires_at - BufferSecs

\* Lifetimes, in seconds, of the tokens the exchange endpoint hands out.
ExpiresIn == {240, 300, 600}
\* How long the caller waits between two calls, in seconds.
Pauses == {0, 400}

\* What get_github_copilot_api_token(client).await can give at clock reading
\* t: no OAuth token found (no request is made), the exchange request fails
\* or is refused, or a token.
NoOAuthToken == [ok |-> FALSE, get |-> FALSE, expires_at |-> 0]
ExchangeFailed == [ok |-> FALSE, get |-> TRUE, expires_at |-> 0]
GithubCopilotToken(exp) == [ok |-> TRUE, get |-> TRUE, expires_at |-> exp]
TokenOutcomes(t) ==
  {NoOAuthToken, ExchangeFailed} \cup {GithubCopilotToken(t + e) : e \in ExpiresIn}
\* The invocation as token_log keeps it: in which call and when it was made.
Logged_token(out, c, t) ==
  [call |-> c, at |-> t, ok |-> out.ok, get |-> out.get, expires_at |-> out.expires_at]

\* The decoder-side state right after `tokio::spawn(process_*_sse(stream, tx_event))`.
Spawned(d) ==
  /\ sse_dialect' = d
  /\ dec_pc' = "wait"
  /\ dec_item' = None
  /\ dec_then' = "done"
  /\ frames' = <<>>
  /\ waited' = 0
  /\ queue' = <<>>
  /\ rx_alive' = TRUE
  /\ received' = <<>>
  /\ rx_eof' = FALSE
  /\ to_come' = StreamFrames
  /\ idle_for' = 0
  /\ elapsed' = 0

\* The caller lets go of the stream of the call before: the model follows
\* the decoder of the current call only.
Released ==
  /\ sse_dialect' = "generic"
  /\ dec_pc' = "done"
  /\ dec_item' = None
  /\ dec_then' = "done"
  /\ frames' = <<>>
  /\ waited' = 0
  /\ queue' = <<>>
  /\ rx_alive' = FALSE
  /\ received' = <<>>
  /\ rx_eof' = FALSE
  /\ to_come' = 0
  /\ idle_for' = 0
  /\ elapsed' = 0

\* No channel and no decoder task.
NotSpawned ==
  /\ sse_dialect = "generic"
  /\ dec_pc = "done"
  /\ dec_item = None
  /\ dec_then = "done"
  /\ frames = <<>>
  /\ waited = 0
  /\ queue = <<>>
  /\ rx_alive = FALSE
  /\ received = <<>>
  /\ rx_eof = FALSE
  /\ to_come = 0
  /\ idle_for = 0
  /\ elapsed = 0

DispatchInit ==
  /\ prompt = OnePrompt
  /\ model = "m"
  /\ payload = NoPayload
  /\ dialect \in Dialects
  /\ api_key \in {"none", "key"}
  /\ max_retries \in 0..MaxRetries
  /\ d_pc = "start"
  /\ attempt = 0
  /\ api_key_str = "none"
  /\ sends = <<>>
  /\ responses = <<>>
  /\ d_result = NoResult
  /\ delay = NoDelay
  /\ now = 0
  /\ calls = 1
  /\ token_log = <<>>

\* stream_chat_completions up to `let mut attempt = 0`.
ChatStart ==
  /\ d_pc = "start"
  /\ dialect = "generic"
  /\ payload' = chat_payload(prompt, model)
  /\ api_key_str' = api_key
  /\ d_pc' = "loop"
  /\ UNCHANGED <<prompt, model, dialect, api_key, max_retries, attempt, sends, responses,
                 d_result, delay, now, calls, token_log, svars, avars>>

\* A dispatcher that exchanges a token whether or not the provider has a key.
CopilotStart_always_exchanges ==
  /\ d_pc = "start"
  /\ dialect = "copilot"
  /\ \E out \in TokenOutcomes(now) :
       /\ token_log' = Append(token_log, Logged_token(out, calls, now))
       /\ IF api_key # "none"
          THEN /\ api_key_str' = api_key
               /\ d_pc' = "loop"
               /\ d_result' = d_result
          ELSE IF ~out.ok
          THEN /\ d_result' = AuthErr
               /\ d_pc' = "done"
               /\ api_key_str' = api_key_str
          ELSE IF ~is_valid(out.expires_at, now)
          THEN /\ d_result' = UnexpectedStatus(UNAUTHORIZED, "expired")
               /\ d_pc' = "done"
               /\ api_key_str' = api_key_str
          ELSE /\ api_key_str' = "copilot_token"
               /\ d_pc' = "loop"
               /\ d_result' = d_result
  /\ payload' = copilot_payload(prompt, model)
  /\ UNCHANGED <<prompt, model, dialect, api_key, max_retries, attempt, sends, responses,
                 delay, now, calls, svars, avars>>

\* A dispatcher that asks for a token a second time when the first
\* request for one has failed.
CopilotStart_retries_exchange ==
  /\ d_pc = "start"
  /\ dialect = "copilot"
  /\ \/ /\ api_key # "none"
        /\ api_key_str' = api_key
        /\ d_pc' = "loop"
        /\ UNCHANGED <<d_result, token_log>>
     \/ /\ api_key = "none"
        /\ \E out \in TokenOutcomes(now) :
             /\ token_log' = IF out.ok
                             THEN Append(token_log, Logged_token(out, calls, now))
                             ELSE token_log \o <<Logged_token(out, calls, now),
                                                 Logged_token(out, calls, now)>>
             /\ IF ~out.ok
                THEN /\ d_result' = AuthErr
                     /\ d_pc' = "done"
                     /\ api_key_str' = api_key_str
                ELSE IF ~is_valid(out.expires_at, now)
                THEN /\ d_result' = UnexpectedStatus(UNAUTHORIZED, "expired")
                     /\ d_pc' = "done"
                     /\ api_key_str' = api_key_str
                ELSE /\ api_key_str' = "copilot_token"
                     /\ d_pc' = "loop"
                     /\ d_result' = d_result
  /\ payload' = copilot_payload(prompt, model)
  /\ UNCHANGED <<prompt, model, dialect, api_key, max_retries, attempt, sends, responses,
                 delay, now, calls, svars, avars>>

\* A dispatcher that goes on without a credential when none can be resolved.
CopilotStart_anonymous ==
  /\ d_pc = "start"
  /\ dialect = "copilot"
  /\ \/ /\ api_key # "none"
        /\ api_key_str' = api_key
        /\ d_pc' = "loop"
        /\ UNCHANGED <<d_result, token_log>>
     \/ /\ api_key = "none"
        /\ \E out \in TokenOutcomes(now) :
             /\ token_log' = Append(token_log, Logged_token(out, calls, now))
             /\ IF ~out.ok
                THEN /\ d_result' = d_result
                     /\ d_pc' = "loop"
                     /\ api_key_str' = "none"
                ELSE IF ~is_valid(out.expires_at, now)
                THEN /\ d_result' = UnexpectedStatus(UNAUTHORIZED, "expired")
                     /\ d_pc' = "done"
                     /\ api_key_str' = api_key_str
                ELSE /\ api_key_str' = "copilot_token"
                     /\ d_pc' = "loop"
                     /\ d_result' = d_result
  /\ payload' = copilot_payload(prompt, model)
  /\ UNCHANGED <<prompt, model, dialect, api_key, max_retries, attempt, sends, responses,
                 delay, now, calls, svars, avars>>

\* stream_github_copilot_completions up to `let mut attempt = 0`.
CopilotStart ==
  /\ d_pc = "start"
  /\ dialect = "copilot"
  /\ \/ /\ api_key # "none"
        /\ api_key_str' = api_key
        /\ d_pc' = "loop"
        /\ UNCHANGED <<d_result, token_log>>
     \/ /\ api_key = "none"
        /\ \E out \in TokenOutcomes(now) :
             /\ token_log' = Append(token_log, Logged_token(out, calls, now))
             /\ IF ~out.ok
                THEN /\ d_result' = AuthErr
                     /\ d_pc' = "done"
                     /\ api_key_str' = api_key_str
                ELSE IF ~is_valid(out.expires_at, now)
                THEN /\ d_result' = UnexpectedStatus(UNAUTHORIZED, "expired")
                     /\ d_pc' = "done"
                     /\ api_key_str' = api_key_str
                ELSE /\ api_key_str' = "copilot_token"
                     /\ d_pc' = "loop"
                     /\ d_result' = d_result
  /\ payload' = copilot_payload(prompt, model)
  /\ UNCHANGED <<prompt, model, dialect, api_key, max_retries, attempt, sends, responses,
                 delay, now, calls, svars, avars>>

\* A loop that resolves the credential anew for every attempt.
SendRequest_reresolves ==
  /\ d_pc = "loop"
  /\ attempt' = attempt + 1
  /\ sends' = Append(sends, api_key_str)
  /\ d_pc' = "inflight"
  /\ token_log' = IF dialect = "copilot" /\ api_key = "none"
                  THEN Append(token_log,
                              Logged_token(GithubCopilotToken(now + 600), calls, now))
                  ELSE token_log
  /\ UNCHANGED <<prompt, model, payload, dialect, api_key, max_retries, api_key_str,
                 responses, d_result, delay, now, calls, svars, avars>>

\* Top of the loop: attempt += 1 and the POST is sent.
SendRequest ==
  /\ d_pc = "loop"
  /\ attempt' = attempt + 1
  /\ sends' = Append(sends, api_key_str)
  /\ d_pc' = "inflight"
  /\ UNCHANGED <<prompt, model, payload, dialect, api_key, max_retries, api_key_str,
                 responses, d_result, delay, now, calls, token_log, svars, avars>>

\* send().await resolves and the `match res` runs to its return or its sleep;
\* on a success response it makes the channel and spawns the decoder.
OnResponse ==
  /\ d_pc = "inflight"
  /\ \E res \in SendOutcomes :
       LET o == IF dialect = "generic"
                THEN chat_on_response(attempt, max_retries, res)
                ELSE copilot_on_response(attempt, max_retries, res)
       IN /\ responses' = Append(responses, res)
          /\ d_result' = o.result
          /\ IF o.pc = "sleep"
             THEN \E dl \in retry_delay(attempt, res) :
                    IF dl = Overflowed
                    THEN d_pc' = "panicked" /\ delay' = delay
                    ELSE d_pc' = "sleep" /\ delay' = dl
             ELSE d_pc' = o.pc /\ delay' = delay
          /\ IF o.result = OkStream THEN Spawned(dialect) ELSE UNCHANGED svars
  /\ UNCHANGED <<prompt, model, payload, dialect, api_key, max_retries, attempt,
                 api_key_str, sends, now, calls, token_log, avars>>

\* tokio::time::sleep(delay).await returns.
Wake ==
  /\ d_pc = "sleep"
  /\ d_pc' = "loop"
  /\ UNCHANGED <<prompt, model, payload, dialect, api_key, max_retries, attempt,
                 api_key_str, sends, responses, d_result, delay, now, calls, token_log,
                 svars, avars>>

\* The caller, done with one call and its stream, makes the next call with
\* the same provider, at once or after a pause.
NewCall ==
  /\ d_pc = "done"
  /\ calls < MaxCalls
  /\ calls' = calls + 1
  /\ \E p \in Pauses : now' = now + p
  /\ d_pc' = "start"
  /\ attempt' = 0
  /\ api_key_str' = "none"
  /\ sends' = <<>>
  /\ responses' = <<>>
  /\ d_result' = NoResult
  /\ delay' = NoDelay
  /\ payload' = NoPayload
  /\ Released
  /\ UNCHANGED <<prompt, model, dialect, api_key, max_retries, token_log, avars>>

-----------------------------------------------------------------------------
(* The decoder task: process_chat_sse / process_github_copilot_sse *)


\* serde_json::Value
JNull == [t |-> "null"]
JStr(s) == [t |-> "str", s |-> s]
JArr(a) == [t |-> "arr", a |-> a]
JObj(f) == [t |-> "obj", f |-> f]

\* Value::get with a key, Value::get with an index, Value::as_str
get(v, key) == IF v.t = "obj" /\ key \in DOMAIN v.f THEN Some(v.f[key]) ELSE <<>>
get_index(v, i) == IF v.t = "arr" /\ i < Len(v.a) THEN Some(v.a[i + 1]) ELSE <<>>
as_str(v) == IF v.t = "str" THEN Some(v.s) ELSE <<>>

\* sse.data: a document, possibly surrounded by whitespace.  A literal is
\* text that is not JSON.
Lit(s) == [t |-> "lit", s |-> s]
Data(ws, doc) == [ws |-> ws, doc |-> doc]
str_trim(d) == [d EXCEPT !.ws = FALSE]
DONE == Data(FALSE, Lit("[DONE]"))
\* serde_json::from_str: Err is <<>>, Ok(v) is <<v>>
from_str(d) == IF d.doc.t = "lit" THEN <<>> ELSE Some(d.doc)

DeltaChunk(content) ==
  JObj([choices |-> JArr(<<JObj([delta |-> JObj([content |-> content])])>>)])
RoleOnlyChunk ==
  JObj([choices |-> JArr(<<JObj([delta |-> JObj([role |-> JStr(<<"r">>)])])>>)])

\* The payloads the server sends in the model.
SseData ==
  {Data(FALSE, DeltaChunk(JStr(<<c>>))) : c \in Chars}
    \cup {Data(ws, Lit("[DONE]")) : ws \in BOOLEAN}
    \cup {Data(FALSE, Lit("not-json")),
          Data(FALSE, DeltaChunk(JNull)),
          Data(FALSE, RoleOnlyChunk)}

\* The results of timeout(idle_timeout, stream.next()).await
Frame(d) == [kind |-> "frame", data |-> d]
StreamError == [kind |-> "err", data |-> Data(FALSE, Lit(""))]
StreamEnd == [kind |-> "end", data |-> Data(FALSE, Lit(""))]
Elapsed == [kind |-> "timeout", data |-> Data(FALSE, Lit(""))]
StreamResults == {Frame(d) : d \in SseData} \cup {StreamError, StreamEnd}

\* One pass of the loop body: what it sends, and whether it returns.
SendThen(ev, then) == [emit |-> Some(ev), then |-> then]
Continue == [emit |-> <<>>, then |-> "wait"]

AssistantDelta(text) == OutputItemDone(Message("assistant", <<OutputText(text)>>))

\* process_chat_sse: chunk.get("choices").and_then(..)...and_then(|c| c.as_str())
chat_content_opt(chunk) ==
  LET choices == get(chunk, "choices")
      choice == IF choices = <<>> THEN <<>> ELSE get_index(choices[1], 0)
      delta == IF choice = <<>> THEN <<>> ELSE get(choice[1], "delta")
      content == IF delta = <<>> THEN <<>> ELSE get(delta[1], "content")
  IN IF content = <<>> THEN <<>> ELSE as_str(content[1])

\* A closure that takes a null content for an empty text.
copilot_content_opt_null_is_empty(chunk) ==
  LET choices == get(chunk, "choices")
      choice == IF choices = <<>> THEN <<>> ELSE get_index(choices[1], 0)
      delta == IF choice = <<>> THEN <<>> ELSE get(choice[1], "delta")
  IN IF delta = <<>> THEN <<>>
     ELSE IF get(delta[1], "content") # <<>> /\ as_str(get(delta[1], "content")[1]) # <<>>
     THEN Some(as_str(get(delta[1], "content")[1])[1])
     ELSE IF get(delta[1], "content") = Some(JNull) THEN Some(EmptyText)
     ELSE <<>>

\* process_github_copilot_sse: the same path, with the closure over delta
copilot_content_opt(chunk) ==
  LET choices == get(chunk, "choices")
      choice == IF choices = <<>> THEN <<>> ELSE get_index(choices[1], 0)
      delta == IF choice = <<>> THEN <<>> ELSE get(choice[1], "delta")
  IN IF delta = <<>> THEN <<>>
     ELSE IF get(delta[1], "content") # <<>> /\ as_str(get(delta[1], "content")[1]) # <<>>
     THEN Some(as_str(get(delta[1], "content")[1])[1])
     ELSE <<>>

\* A decoder that keeps reading after the sentinel.
process_chat_sse_ignores_done(res) ==
  CASE res.kind = "err" -> SendThen(StreamErr("transport"), "done")
    [] res.kind = "end" -> SendThen(Completed(""), "done")
    [] res.kind = "timeout" -> SendThen(StreamErr("idle timeout waiting for SSE"), "done")
    [] OTHER ->
         IF str_trim(res.data) = DONE THEN SendThen(Completed(""), "wait")
         ELSE IF from_str(res.data) = <<>> THEN Continue
         ELSE IF chat_content_opt(from_str(res.data)[1]) = <<>> THEN Continue
         ELSE SendThen(AssistantDelta(chat_content_opt(from_str(res.data)[1])[1]), "wait")

\* A decoder that goes on waiting after reporting the idle timeout.
process_chat_sse_timeout_continues(res) ==
  CASE res.kind = "err" -> SendThen(StreamErr("transport"), "done")
    [] res.kind = "end" -> SendThen(Completed(""), "done")
    [] res.kind = "timeout" -> SendThen(StreamErr("idle timeout waiting for SSE"), "wait")
    [] OTHER ->
         IF str_trim(res.data) = DONE THEN SendThen(Completed(""), "done")
         ELSE IF from_str(res.data) = <<>> THEN Continue
         ELSE IF chat_content_opt(from_str(res.data)[1]) = <<>> THEN Continue
         ELSE SendThen(AssistantDelta(chat_content_opt(from_str(res.data)[1])[1]), "wait")

\* A decoder that reports a clean end of the byte stream as an error.
process_chat_sse_close_is_error(res) ==
  CASE res.kind = "err" -> SendThen(StreamErr("transport"), "done")
    [] res.kind = "end" -> SendThen(StreamErr("stream closed before [DONE]"), "done")
    [] res.kind = "timeout" -> SendThen(StreamErr("idle timeout waiting for SSE"), "done")
    [] OTHER ->
         IF str_trim(res.data) = DONE THEN SendThen(Completed(""), "done")
         ELSE IF from_str(res.data) = <<>> THEN Continue
         ELSE IF chat_content_opt(from_str(res.data)[1]) = <<>> THEN Continue
         ELSE SendThen(AssistantDelta(chat_content_opt(from_str(res.data)[1])[1]), "wait")

\* A decoder that reports a failed byte stream as the end of the turn.
process_chat_sse_error_completes(res) ==
  CASE res.kind = "err" -> SendThen(Completed(""), "done")
    [] res.kind = "end" -> SendThen(Completed(""), "done")
    [] res.kind = "timeout" -> SendThen(StreamErr("idle timeout waiting for SSE"), "done")
    [] OTHER ->
         IF str_trim(res.data) = DONE THEN SendThen(Completed(""), "done")
         ELSE IF from_str(res.data) = <<>> THEN Continue
         ELSE IF chat_content_opt(from_str(res.data)[1]) = <<>> THEN Continue
         ELSE SendThen(AssistantDelta(chat_content_opt(from_str(res.data)[1])[1]), "wait")

\* process_chat_sse: one pass of its loop on the result `res`.
process_chat_sse(res) ==
  CASE res.kind = "err" -> SendThen(StreamErr("transport"), "done")
    [] res.kind = "end" -> SendThen(Completed(""), "done")
    [] res.kind = "timeout" -> SendThen(StreamErr("idle timeout waiting for SSE"), "done")
    [] OTHER ->
         IF str_trim(res.data) = DONE THEN SendThen(Completed(""), "done")
         ELSE IF from_str(res.data) = <<>> THEN Continue
         ELSE IF chat_content_opt(from_str(res.data)[1]) = <<>> THEN Continue
         ELSE SendThen(AssistantDelta(chat_content_opt(from_str(res.data)[1])[1]), "wait")

\* A decoder that gives up on a frame it cannot parse.
process_github_copilot_sse_malformed_is_error(res) ==
  CASE res.kind = "err" -> SendThen(StreamErr("transport"), "done")
    [] res.kind = "end" -> SendThen(Completed(""), "done")
    [] res.kind = "timeout" -> SendThen(StreamErr("idle timeout waiting for SSE"), "done")
    [] OTHER ->
         IF str_trim(res.data) = DONE THEN SendThen(Completed(""), "done")
         ELSE IF from_str(res.data) = <<>> THEN SendThen(StreamErr("malformed frame"), "done")
         ELSE IF copilot_content_opt(from_str(res.data)[1]) = <<>> THEN Continue
         ELSE SendThen(AssistantDelta(copilot_content_opt(from_str(res.data)[1])[1]), "wait")

\* A decoder that returns on the sentinel without sending anything.
process_github_copilot_sse_done_is_silent(res) ==
  CASE res.kind = "err" -> SendThen(StreamErr("transport"), "done")
    [] res.kind = "end" -> SendThen(Completed(""), "done")
    [] res.kind = "timeout" -> SendThen(StreamErr("idle timeout waiting for SSE"), "done")
    [] OTHER ->
         IF str_trim(res.data) = DONE THEN [emit |-> <<>>, then |-> "done"]
         ELSE IF from_str(res.data) = <<>> THEN Continue
         ELSE IF copilot_content_opt(from_str(res.data)[1]) = <<>> THEN Continue
         ELSE SendThen(AssistantDelta(copilot_content_opt(from_str(res.data)[1])[1]), "wait")

\* process_github_copilot_sse: one pass of its loop on the result `res`.
process_github_copilot_sse(res) ==
  CASE res.kind = "err" -> SendThen(StreamErr("transport"), "done")
    [] res.kind = "end" -> SendThen(Completed(""), "done")
    [] res.kind = "timeout" -> SendThen(StreamErr("idle timeout waiting for SSE"), "done")
    [] OTHER ->
         IF str_trim(res.data) = DONE THEN SendThen(Completed(""), "done")
         ELSE IF from_str(res.data) = <<>> THEN Continue
         ELSE IF copilot_content_opt(from_str(res.data)[1]) = <<>> THEN Continue
         ELSE SendThen(AssistantDelta(copilot_content_opt(from_str(res.data)[1])[1]), "wait")

\* A decoder with one deadline for the whole stream: reading a frame does
\* not restart its timer.
DecoderStep_single_deadline(res) ==
  LET o == IF sse_dialect = "generic"
           THEN process_chat_sse(res)
           ELSE process_github_copilot_sse(res)
  IN /\ frames' = Append(frames, res)
     /\ waited' = waited
     /\ IF o.emit = <<>> \/ ~rx_alive
        THEN /\ dec_pc' = o.then
             /\ UNCHANGED <<queue, dec_item, dec_then>>
        ELSE IF Len(queue) < QueueCapacity
        THEN /\ queue' = Append(queue, o.emit[1])
             /\ dec_pc' = o.then
             /\ UNCHANGED <<dec_item, dec_then>>
        ELSE /\ dec_pc' = "send"
             /\ dec_item' = o.emit[1]
             /\ dec_then' = o.then
             /\ queue' = queue

\* A decoder whose channel takes every item at once, however many it holds.
DecoderStep_unbounded(res) ==
  LET o == IF sse_dialect = "generic"
           THEN process_chat_sse(res)
           ELSE process_github_copilot_sse(res)
  IN /\ frames' = Append(frames, res)
     /\ waited' = 0
     /\ IF o.emit = <<>> \/ ~rx_alive
        THEN /\ dec_pc' = o.then
             /\ UNCHANGED <<queue, dec_item, dec_then>>
        ELSE /\ queue' = Append(queue, o.emit[1])
             /\ dec_pc' = o.then
             /\ UNCHANGED <<dec_item, dec_then>>

\* The loop body on `res`, up to its next suspension: tx_event.send(ev).await
\* returns at once when the receiver is gone (Err, ignored) or the channel
\* has room, and suspends when the channel is full.
DecoderStep(res) ==
  LET o == IF sse_dialect = "generic"
           THEN process_chat_sse(res)
           ELSE process_github_copilot_sse(res)
  IN /\ frames' = Append(frames, res)
     /\ waited' = 0
     /\ IF o.emit = <<>> \/ ~rx_alive
        THEN /\ dec_pc' = o.then
             /\ UNCHANGED <<queue, dec_item, dec_then>>
        ELSE IF Len(queue) < QueueCapacity
        THEN /\ queue' = Append(queue, o.emit[1])
             /\ dec_pc' = o.then
             /\ UNCHANGED <<dec_item, dec_then>>
        ELSE /\ dec_pc' = "send"
             /\ dec_item' = o.emit[1]
             /\ dec_then' = o.then
             /\ queue' = queue

\* The channel holds this many deltas when the model starts with a backlog.
Backlog == QueueCapacity - 1

\* A decoder just spawned, or one whose first Backlog frames were the same
\* delta and whose receiver has not called recv() yet.
DecoderInit ==
  /\ sse_dialect \in Dialects
  /\ dec_pc = "wait"
  /\ dec_item = None
  /\ dec_then = "done"
  /\ waited = 0
  /\ rx_alive = TRUE
  /\ received = <<>>
  /\ rx_eof = FALSE
  /\ to_come = MaxFrames
  /\ idle_for = 0
  /\ elapsed = 0
  /\ \E n \in {0, Backlog} :
       /\ frames = [i \in 1..n |-> Frame(Data(FALSE, DeltaChunk(JStr(<<"a">>))))]
       /\ queue = [i \in 1..n |-> AssistantDelta(<<"a">>)]

\* stream.next() resolves before the idle timeout.
StreamNext ==
  /\ dec_pc = "wait"
  /\ waited < IdleTicks
  /\ to_come > 0
  /\ to_come' = to_come - 1
  /\ idle_for' = 0
  /\ \E res \in StreamResults : DecoderStep(res)
  /\ UNCHANGED <<sse_dialect, rx_alive, received, rx_eof, elapsed, dvars, avars>>

\* Time passes while the decoder waits for the next frame.
Tick ==
  /\ dec_pc = "wait"
  /\ waited < IdleTicks
  /\ waited' = waited + 1
  /\ idle_for' = idle_for + 1
  /\ elapsed' = IF elapsed < IdleTicks THEN elapsed + 1 ELSE elapsed
  /\ UNCHANGED <<sse_dialect, dec_pc, dec_item, dec_then, frames, queue, rx_alive,
                 received, rx_eof, to_come, dvars, avars>>

\* Time passes while the decoder is suspended in tx_event.send(..).await,
\* more of it than the idle timeout: no timeout(idle_timeout, ..) exists
\* then, so no timer advances.
TickSuspended ==
  /\ dec_pc = "send"
  /\ idle_for <= IdleTicks
  /\ idle_for' = idle_for + IdleTicks + 1
  /\ elapsed' = IdleTicks
  /\ UNCHANGED <<sse_dialect, dec_pc, dec_item, dec_then, frames, waited, queue, rx_alive,
                 received, rx_eof, to_come, dvars, avars>>

\* timeout(idle_timeout, ..) resolves to Err(Elapsed).
IdleTimeout ==
  /\ dec_pc = "wait"
  /\ waited = IdleTicks
  /\ DecoderStep(Elapsed)
  /\ UNCHANGED <<sse_dialect, rx_alive, received, rx_eof, to_come, idle_for, elapsed,
                 dvars, avars>>

\* A decoder whose idle timer runs on from the last frame read while a send
\* is suspended.
SendResume_timer_runs ==
  /\ dec_pc = "send"
  /\ ~rx_alive \/ Len(queue) < QueueCapacity
  /\ queue' = IF rx_alive THEN Append(queue, dec_item) ELSE queue
  /\ dec_pc' = dec_then
  /\ dec_item' = None
  /\ waited' = IF idle_for >= IdleTicks THEN IdleTicks ELSE idle_for
  /\ UNCHANGED <<sse_dialect, dec_then, frames, rx_alive, received, rx_eof, to_come,
                 idle_for, elapsed, dvars, avars>>

\* A send suspended on a full channel returns: a permit was freed, or the
\* receiver was dropped.
SendResume ==
  /\ dec_pc = "send"
  /\ ~rx_alive \/ Len(queue) < QueueCapacity
  /\ queue' = IF rx_alive THEN Append(queue, dec_item) ELSE queue
  /\ dec_pc' = dec_then
  /\ dec_item' = None
  /\ waited' = 0
  /\ UNCHANGED <<sse_dialect, dec_then, frames, rx_alive, received, rx_eof, to_come,
                 idle_for, elapsed, dvars, avars>>

\* rx_event.recv().await returns Some(item).
Recv ==
  /\ rx_alive
  /\ queue # <<>>
  /\ received' = Append(received, Head(queue))
  /\ queue' = Tail(queue)
  /\ UNCHANGED <<sse_dialect, dec_pc, dec_item, dec_then, frames, waited, rx_alive,
                 rx_eof, to_come, idle_for, elapsed, dvars, avars>>

\* rx_event.recv().await returns None: the sender is gone and nothing is buffered.
RecvNone ==
  /\ rx_alive
  /\ queue = <<>>
  /\ dec_pc = "done"
  /\ ~rx_eof
  /\ rx_eof' = TRUE
  /\ UNCHANGED <<sse_dialect, dec_pc, dec_item, dec_then, frames, waited, queue,
                 rx_alive, received, to_come, idle_for, elapsed, dvars, avars>>

\* The caller drops the ResponseStream.
DropReceiver ==
  /\ rx_alive
  /\ rx_alive' = FALSE
  /\ queue' = <<>>
  /\ UNCHANGED <<sse_dialect, dec_pc, dec_item, dec_then, frames, waited, received,
                 rx_eof, to_come, idle_for, elapsed, dvars, avars>>

-----------------------------------------------------------------------------
(* The aggregation adapter: AggregatedChatStream *)

\* Poll::Pending and Poll::Ready(None)
Pending == [type |-> "Pending", item |-> NoItem, response_id |-> "", err |-> ""]
ReadyNone == [type |-> "ReadyNone", item |-> NoItem, response_id |-> "", err |-> ""]

\* The OutputItemDone items the wrapped stream produces in the model.
InnerItems ==
  {Message("assistant", <<OutputText(<<c>>)>>) : c \in Chars}
    \cup {Message("assistant", <<OutputText(EmptyText)>>),
          Message("assistant", <<OutputText(<<"a">>), OutputText(<<"b">>)>>),
          Message("assistant", <<InputText(<<"a">>), OutputText(<<"b">>)>>),
          Message("user", <<OutputText(<<"a">>)>>),
          OtherItem}
InnerOutputItems == {OutputItemDone(it) : it \in InnerItems}
ResponseIds == {"", "r1"}
\* What ends one poll_next call's run of inner polls.
InnerTerminators ==
  {Pending, ReadyNone, StreamErr("inner")} \cup {Completed(id) : id \in ResponseIds}

\* content.iter().find_map(|c| match c { OutputText { text } => Some(text), _ => None })
RECURSIVE find_map_output_text(_)
find_map_output_text(content) ==
  IF content = <<>> THEN <<>>
  ELSE IF Head(content).kind = "OutputText" THEN Some(Head(content).text)
  ELSE find_map_output_text(Tail(content))

\* An adapter that buffers the text of every role.
accumulate_any_role(cum, item) ==
  IF item.kind = "Message"
  THEN IF find_map_output_text(item.content) # <<>>
       THEN cum \o find_map_output_text(item.content)[1]
       ELSE cum
  ELSE cum

\* The OutputItemDone arm of poll_next: this.cumulative after the item.
accumulate(cum, item) ==
  IF item.kind = "Message"
  THEN IF item.role = "assistant"
       THEN IF find_map_output_text(item.content) # <<>>
            THEN cum \o find_map_output_text(item.content)[1]
            ELSE cum
       ELSE cum
  ELSE cum

PollResult(cum, pend, ret, n) == [cum |-> cum, pend |-> pend, ret |-> ret, polled |-> n]

\* A loop that forwards the OutputItemDone events it does not buffer.
RECURSIVE poll_loop_forwards(_, _, _)
poll_loop_forwards(cum, polls, n) ==
  LET r == Head(polls)
  IN CASE r.type = "Pending" -> PollResult(cum, None, Pending, n + 1)
       [] r.type = "ReadyNone" -> PollResult(cum, None, ReadyNone, n + 1)
       [] r.type = "Err" -> PollResult(cum, None, r, n + 1)
       [] r.type = "OutputItemDone" ->
            IF r.item.kind = "Message" /\ r.item.role = "assistant"
            THEN poll_loop_forwards(accumulate(cum, r.item), Tail(polls), n + 1)
            ELSE PollResult(cum, None, r, n + 1)
       [] OTHER ->
            IF cum # EmptyText
            THEN PollResult(EmptyText, r,
                            OutputItemDone(Message("assistant", <<OutputText(cum)>>)), n + 1)
            ELSE PollResult(cum, None, r, n + 1)

\* A loop that clears the buffered text when the source fails.
RECURSIVE poll_loop_resets_on_error(_, _, _)
poll_loop_resets_on_error(cum, polls, n) ==
  LET r == Head(polls)
  IN CASE r.type = "Pending" -> PollResult(cum, None, Pending, n + 1)
       [] r.type = "ReadyNone" -> PollResult(cum, None, ReadyNone, n + 1)
       [] r.type = "Err" -> PollResult(EmptyText, None, r, n + 1)
       [] r.type = "OutputItemDone" ->
            poll_loop_resets_on_error(accumulate(cum, r.item), Tail(polls), n + 1)
       [] OTHER ->
            IF cum # EmptyText
            THEN PollResult(EmptyText, r,
                            OutputItemDone(Message("assistant", <<OutputText(cum)>>)), n + 1)
            ELSE PollResult(cum, None, r, n + 1)

\* A loop that copies the buffered text into the aggregated message and
\* keeps it.
RECURSIVE poll_loop_keeps_text(_, _, _)
poll_loop_keeps_text(cum, polls, n) ==
  LET r == Head(polls)
  IN CASE r.type = "Pending" -> PollResult(cum, None, Pending, n + 1)
       [] r.type = "ReadyNone" -> PollResult(cum, None, ReadyNone, n + 1)
       [] r.type = "Err" -> PollResult(cum, None, r, n + 1)
       [] r.type = "OutputItemDone" ->
            poll_loop_keeps_text(accumulate(cum, r.item), Tail(polls), n + 1)
       [] OTHER ->
            IF cum # EmptyText
            THEN PollResult(cum, r,
                            OutputItemDone(Message("assistant", <<OutputText(cum)>>)), n + 1)
            ELSE PollResult(cum, None, r, n + 1)

\* The `loop` of poll_next over the results `polls` the wrapped stream gives
\* to successive polls, after n polls.
RECURSIVE poll_loop(_, _, _)
poll_loop(cum, polls, n) ==
  LET r == Head(polls)
  IN CASE r.type = "Pending" -> PollResult(cum, None, Pending, n + 1)
       [] r.type = "ReadyNone" -> PollResult(cum, None, ReadyNone, n + 1)
       [] r.type = "Err" -> PollResult(cum, None, r, n + 1)
       [] r.type = "OutputItemDone" ->
            poll_loop(accumulate(cum, r.item), Tail(polls), n + 1)
       [] OTHER ->
            IF cum # EmptyText
            THEN PollResult(EmptyText, r,
                            OutputItemDone(Message("assistant", <<OutputText(cum)>>)), n + 1)
            ELSE PollResult(cum, None, r, n + 1)

\* An adapter that returns the buffered Completed without taking it.
poll_next_keeps_pending(cum, pend, polls) ==
  IF pend # None
  THEN PollResult(cum, pend, pend, 0)
  ELSE poll_loop(cum, polls, 0)

\* An adapter that forgets to buffer the Completed behind the aggregated message.
poll_next_drops_completed(cum, pend, polls) ==
  IF pend # None
  THEN PollResult(cum, None, pend, 0)
  ELSE LET r == poll_loop(cum, polls, 0)
       IN [r EXCEPT !.pend = None]

\* AggregatedChatStream::poll_next
poll_next(cum, pend, polls) ==
  IF pend # None
  THEN PollResult(cum, None, pend, 0)
  ELSE poll_loop(cum, polls, 0)

\* AggregateStreamExt::aggregate
aggregate ==
  /\ cumulative = EmptyText
  /\ pending_completed = None
  /\ inner_log = <<>>
  /\ inner_done = FALSE
  /\ out_log = <<>>
  /\ last_poll = [ret |-> None, polled |-> 0]

Bursts(n) == UNION {[1..k -> InnerOutputItems] : k \in 0..n}
Logged(polls) == SelectSeq(polls, LAMBDA r : r.type \notin {"Pending", "ReadyNone"})
Min(a, b) == IF a < b THEN a ELSE b

\* What the wrapped stream would give to the successive polls of one
\* poll_next call: a run of ready OutputItemDone events, then an end of
\* the run.  A stream that has returned None returns None again.
PollOffers ==
  IF inner_done THEN {<<ReadyNone>>}
  ELSE IF pending_completed # None THEN {<<Pending>>}
  ELSE {b \o <<t>> :
          b \in Bursts(Min(MaxBurst, MaxInner - Len(inner_log))),
          t \in InnerTerminators}

\* One call of poll_next by the consumer.
PollNext ==
  /\ \E polls \in PollOffers :
       LET r == poll_next(cumulative, pending_completed, polls)
           consumed == SubSeq(polls, 1, r.polled)
       IN /\ Len(inner_log) + Len(Logged(consumed)) <= MaxInner
          /\ cumulative' = r.cum
          /\ pending_completed' = r.pend
          /\ inner_log' = inner_log \o Logged(consumed)
          /\ inner_done' = (inner_done \/ (r.polled > 0 /\ r.ret = ReadyNone))
          /\ out_log' = IF r.ret.type \in {"Pending", "ReadyNone"}
                        THEN out_log
                        ELSE Append(out_log, r.ret)
          /\ last_poll' = [ret |-> r.ret, polled |-> r.polled]
  /\ UNCHANGED <<dvars, svars>>

-----------------------------------------------------------------------------
(* Idle components *)

DecoderIdle == NotSpawned

AggIdle ==
  /\ cumulative = EmptyText
  /\ pending_completed = None
  /\ inner_log = <<>>
  /\ inner_done = TRUE
  /\ out_log = <<>>
  /\ last_poll = [ret |-> None, polled |-> 0]

DispatchIdle ==
  /\ prompt = OnePrompt
  /\ model = "m"
  /\ payload = chat_payload(OnePrompt, "m")
  /\ delay = NoDelay
  /\ dialect = "generic"
  /\ api_key = "none"
  /\ max_retries = 0
  /\ d_pc = "done"
  /\ attempt = 0
  /\ api_key_str = "none"
  /\ sends = <<>>
  /\ responses = <<>>
  /\ d_result = OkStream
  /\ now = 0
  /\ calls = 1
  /\ token_log = <<>>

-----------------------------------------------------------------------------
(* Specification of the dispatch call *)

Init == DispatchInit /\ DecoderIdle /\ AggIdle
Next == ChatStart \/ CopilotStart \/ SendRequest \/ OnResponse \/ Wake \/ NewCall
Spec == Init /\ [][Next]_vars

\* The same calls when every step that can be taken is taken in the end:
\* the function runs on, every send().await resolves and every sleep returns.
\* Nothing obliges the caller to make a further call.
LiveSpec ==
  /\ Spec
  /\ WF_vars(ChatStart) /\ WF_vars(CopilotStart)
  /\ WF_vars(SendRequest) /\ WF_vars(OnResponse) /\ WF_vars(Wake)

-----------------------------------------------------------------------------
(* Specification of the request encoder: a call from its entry, over every *)
(* prompt and model of the bounded sets, up to the top of its loop.        *)

EncoderInit ==
  /\ prompt \in Prompts
  /\ model \in Models
  /\ payload = NoPayload
  /\ dialect \in Dialects
  /\ api_key \in {"none", "key"}
  /\ max_retries = 0
  /\ d_pc = "start"
  /\ attempt = 0
  /\ api_key_str = "none"
  /\ sends = <<>>
  /\ responses = <<>>
  /\ d_result = NoResult
  /\ delay = NoDelay
  /\ now = 0
  /\ calls = 1
  /\ token_log = <<>>
  /\ DecoderIdle
  /\ AggIdle
EncoderNext == ChatStart \/ CopilotStart
EncoderSpec == EncoderInit /\ [][EncoderNext]_vars

-----------------------------------------------------------------------------
(* Specification of one decoder task and its channel *)

DecoderSpecInit == DispatchIdle /\ DecoderInit /\ AggIdle
DecoderNext ==
  \/ StreamNext \/ Tick \/ TickSuspended \/ IdleTimeout \/ SendResume
  \/ Recv \/ RecvNone \/ DropReceiver
DecoderSpec == DecoderSpecInit /\ [][DecoderNext]_vars

-----------------------------------------------------------------------------
(* Specification of one dispatch call together with the decoder it spawns. *)
(* The stream is shorter than the channel's capacity, so no send suspends. *)

CallInit == Init /\ max_retries <= 1
CallNext ==
  \/ ChatStart \/ CopilotStart \/ SendRequest \/ OnResponse \/ Wake
  \/ StreamNext \/ Tick \/ IdleTimeout \/ Recv \/ RecvNone \/ DropReceiver
CallSpec == CallInit /\ [][CallNext]_vars
\* The same when the caller keeps receiving: a recv() that can return an
\* item does so in the end, unless the caller drops the stream.
LiveCallSpec == CallSpec /\ WF_vars(Recv)

-----------------------------------------------------------------------------
(* Specification of the aggregation adapter over an arbitrary wrapped stream *)

AggSpecInit == DispatchIdle /\ DecoderIdle /\ aggregate
AggNext == PollNext
AggSpec == AggSpecInit /\ [][AggNext]_vars

-----------------------------------------------------------------------------
(* Claims about the dispatch call (checked under Spec) *)

IsRetryableResponse(res) ==
  res.kind = "http" /\ (res.status = 429 \/ (500 <= res.status /\ res.status <= 599))
IsNonRetryableResponse(res) ==
  res.kind = "http" /\ ~(200 <= res.status /\ res.status <= 299) /\ ~IsRetryableResponse(res)
AllRetryable == \A i \in 1..Len(responses) : IsRetryableResponse(responses[i])

C2_NonRetryableReturnsAtOnce ==
  \A i \in 1..Len(responses) :
    IsNonRetryableResponse(responses[i]) =>
      /\ i = Len(responses)
      /\ Len(sends) = i
      /\ d_pc = "done"
      /\ d_result = UnexpectedStatus(responses[i].status,
                                     IF responses[i].body_ok THEN responses[i].body ELSE "")

C2_Witness ==
  /\ dialect = "copilot"
  /\ max_retries = 2
  /\ Len(responses) = 3
  /\ responses[3].status = 404
  /\ responses[3].body_ok
  /\ d_result = UnexpectedStatus(404, "b2")

\* The token invocations made in call c
TokenCallsOf(c) == {i \in 1..Len(token_log) : token_log[i].call = c}

\* C17: within one call the credential is resolved once, before the first
\* send: every send of the call carries the same credential, the call makes
\* at most one token exchange, and once a request has been sent the call
\* neither exchanges a token nor changes the credential.
C17_Step ==
  /\ \A i \in 1..Len(sends') : sends'[i] = api_key_str'
  /\ Cardinality(TokenCallsOf(calls)') <= 1
  /\ sends' # <<>> =>
       api_key_str' = (IF api_key # "none" THEN api_key
                       ELSE IF dialect = "copilot" THEN "copilot_token"
                       ELSE "none")
  /\ (sends # <<>> /\ calls' = calls) =>
       (token_log' = token_log /\ api_key_str' = api_key_str)
C17_CredentialResolvedOncePerCall == [][C17_Step]_vars

C17_Witness ==
  /\ dialect = "copilot"
  /\ api_key = "none"
  /\ calls = 1
  /\ sends = <<"copilot_token", "copilot_token", "copilot_token">>
  /\ Len(token_log) = 1

\* C18: with a static API key the credential is that key verbatim, and the
\* call neither exchanges a token nor looks for the local OAuth token: no
\* invocation of the token exchange is ever made.
C18_StaticKeyMeansNoExchange ==
  api_key # "none" =>
    /\ token_log = <<>>
    /\ d_pc \in {"loop", "inflight", "sleep"} => api_key_str = api_key
    /\ \A i \in 1..Len(sends) : sends[i] = api_key

C18_Witness ==
  /\ dialect = "copilot"
  /\ api_key = "key"
  /\ calls = 2
  /\ sends = <<"key", "key">>
  /\ d_result.kind = "RetryLimit"
  /\ token_log = <<>>

\* C19: a call made while the token of the call before it is still valid
\* (the clock is before its expires_at minus 5 minutes) makes no
\* token-exchange request: two such consecutive calls make one exchange.
C19_ValidTokenIsNotExchangedAgain ==
  \A i, j \in 1..Len(token_log) :
    ( /\ token_log[i].ok
      /\ token_log[j].call = token_log[i].call + 1
      /\ token_log[j].at < token_log[i].expires_at - 300 )
    => ~token_log[j].get

\* The call has ended on the expired-token refusal without sending
RefusedAsExpired ==
  /\ d_pc = "done"
  /\ d_result.kind = "UnexpectedStatus"
  /\ d_result.status = 401
  /\ sends = <<>>

\* C20: a token counts as valid exactly when the clock is strictly before
\* expires_at minus 5 minutes: the call goes on with the token in that case
\* and is refused otherwise; a token expiring in 4 minutes or in exactly
\* 5 minutes is refused, one expiring in 10 minutes is used.
C20_ValidIffBeforeExpiryMinusFiveMinutes ==
  \A i \in TokenCallsOf(calls) :
    LET t == token_log[i]
    IN t.ok =>
         /\ RefusedAsExpired <=> ~(t.at < t.expires_at - 5 * 60)
         /\ ~RefusedAsExpired => api_key_str = "copilot_token"
         /\ t.expires_at = t.at + 4 * 60 => RefusedAsExpired
         /\ t.expires_at = t.at + 5 * 60 => RefusedAsExpired
         /\ t.expires_at = t.at + 10 * 60 => ~RefusedAsExpired

C20_Witness ==
  /\ calls = 2
  /\ Len(token_log) = 2
  /\ token_log[1].expires_at = token_log[1].at + 600
  /\ token_log[2].ok
  /\ token_log[2].expires_at = token_log[2].at + 300
  /\ RefusedAsExpired

\* C21: in a vendor-dialect call without a static key, when no OAuth secret
\* is found or the token exchange fails or is refused, the call returns the
\* Auth error, the token is asked for once in that call and never again, and
\* no chat-completions POST is sent.
C21_FailedExchangeIsAuthErrorWithoutSend ==
  \A i \in TokenCallsOf(calls) :
    ~token_log[i].ok =>
      /\ dialect = "copilot" /\ api_key = "none"
      /\ d_pc = "done"
      /\ d_result.kind = "Auth"
      /\ TokenCallsOf(calls) = {i}
      /\ sends = <<>> /\ responses = <<>> /\ attempt = 0

C21_Witness ==
  /\ calls = 2
  /\ Len(token_log) = 2
  /\ ~token_log[1].ok /\ ~token_log[1].get
  /\ ~token_log[2].ok /\ token_log[2].get
  /\ d_result.kind = "Auth"

\* C22: every UnexpectedStatus a call returns is the outcome of a response
\* received for that call's POST: the last response, of a status that is
\* neither success nor 429 nor 5xx, with that status and its drained body.
\* A token already within its expiry buffer is reported as Auth.
C22_UnexpectedStatusComesFromAResponse ==
  d_result.kind = "UnexpectedStatus" =>
    /\ responses # <<>>
    /\ IsNonRetryableResponse(responses[Len(responses)])
    /\ d_result.status = responses[Len(responses)].status
    /\ d_result.body = (IF responses[Len(responses)].body_ok
                        THEN responses[Len(responses)].body ELSE "")

AllTransport == \A i \in 1..Len(responses) : responses[i].kind = "transport"

\* C24: with max_retries = N, while every send fails at transport level the
\* dispatcher of either dialect sends exactly N+1 times and then returns the
\* Transport error, never RetryLimit; a Transport error is returned only
\* for a send that failed on attempt N+1.
C24_TransportErrorAfterNPlusOneSends ==
  /\ d_result.kind = "Transport" =>
       /\ Len(sends) = max_retries + 1
       /\ Len(responses) = Len(sends)
       /\ responses[Len(responses)].kind = "transport"
  /\ (d_result.kind = "RetryLimit") => responses[Len(responses)].kind = "http"
  /\ (AllTransport /\ Len(responses) >= 1) =>
       /\ Len(sends) <= max_retries + 1
       /\ (Len(responses) <= max_retries) => d_pc \in {"sleep", "loop", "inflight"}
       /\ (Len(responses) = max_retries + 1) => d_pc = "done"
       /\ (d_pc = "done") =>
            /\ Len(sends) = max_retries + 1
            /\ d_result.kind = "Transport"

C24_Witness ==
  /\ d_result.kind = "Transport"
  /\ max_retries = 2
  /\ AllTransport
  /\ Len(sends) = 3

\* C27: every POST of the vendor dialect carries a bearer credential, the
\* static key or the exchanged token, and a call that resolves no credential
\* ends without a send; the generic dialect sends with the key as bearer
\* when the provider has one and without authorization when it has none.
C27_VendorDialectAlwaysSendsBearer ==
  /\ dialect = "copilot" =>
       /\ \A i \in 1..Len(sends) :
            /\ sends[i] # "none"
            /\ sends[i] = (IF api_key # "none" THEN api_key ELSE "copilot_token")
       /\ (api_key = "none" /\ d_pc # "start"
             /\ ~(\E i \in TokenCallsOf(calls) :
                    /\ token_log[i].ok
                    /\ token_log[i].at < token_log[i].expires_at - 300))
            => (d_pc = "done" /\ sends = <<>>)
  /\ dialect = "generic" =>
       \A i \in 1..Len(sends) : sends[i] = api_key

C27_Witness ==
  /\ calls = 2
  /\ dialect = "copilot"
  /\ api_key = "none"
  /\ Len(token_log) = 2
  /\ ~token_log[1].ok
  /\ sends = <<"copilot_token", "copilot_token">>

\* The response the loop has just decided to retry after: the last one,
\* once the loop sleeps, or has failed to, before the next send
RetriedResponse ==
  IF d_pc \in {"sleep", "panicked"} THEN <<responses[Len(responses)]>> ELSE <<>>

\* C23: after a 429 or 5xx with attempts remaining the loop sleeps for
\* Retry-After seconds times 1000 milliseconds whenever the header holds a
\* decimal number of seconds, whatever the number, and for backoff(attempt)
\* otherwise; after a failed send it sleeps for backoff(attempt).
C23_DelayIsRetryAfterTimesThousand ==
  \A r \in {RetriedResponse[i] : i \in 1..Len(RetriedResponse)} :
    /\ d_pc = "sleep"
    /\ IF r.kind = "http" /\ r.retry_after.h = "secs"
       THEN /\ delay.kind = "millis"
            /\ delay.millis = mul(r.retry_after.secs, 1000)
       ELSE /\ delay.kind = "backoff"
            /\ delay.attempt = attempt

\* What C25 says of every state of a call
C25_Bounded ==
  /\ attempt = Len(sends)
  /\ Len(sends) <= max_retries + 1
  /\ Len(sends) - Len(responses) = (IF d_pc = "inflight" THEN 1 ELSE 0)
  /\ \A i \in 1..Len(responses) :
       (responses[i].kind = "http" /\ ~IsRetryableResponse(responses[i])) =>
         /\ i = Len(responses)
         /\ d_pc = "done"
         /\ d_result.kind = (IF 200 <= responses[i].status /\ responses[i].status <= 299
                             THEN "Stream" ELSE "UnexpectedStatus")
  /\ d_pc = "done" <=>
       d_result.kind \in {"Stream", "UnexpectedStatus", "RetryLimit", "Transport", "Auth"}

\* C25: failed sends and retryable statuses count against one attempt
\* counter: a call never sends more than max_retries + 1 times and has at
\* most one send in flight, a success or a non-retryable response ends it at
\* once, and, every send and every sleep completing, every call that is
\* started returns: a stream or one error.
C25_CallAlwaysTerminates ==
  /\ []C25_Bounded
  /\ (d_pc = "start") ~> (d_pc = "done")

-----------------------------------------------------------------------------
(* Claims about the request encoder (checked under EncoderSpec) *)

IsMessageItem(it) == it.kind = "Message"
IsTextContent(c) == c.kind = "InputText" \/ c.kind = "OutputText"
RECURSIVE Flatten(_)
Flatten(texts) == IF texts = <<>> THEN <<>> ELSE Head(texts) \o Flatten(Tail(texts))
\* The texts of a message's InputText and OutputText items, joined in order
JoinedText(content) ==
  LET sel == SelectSeq(content, IsTextContent)
  IN Flatten([i \in 1..Len(sel) |-> sel[i].text])

\* C26: for a prompt with m Message items the body's messages array has
\* m+1 entries: the system entry with the full instructions, then for each
\* Message, in prompt order, its role and the in-order concatenation of its
\* InputText and OutputText texts; other content items and other input
\* items add nothing, and the call goes on past the encoding, whatever the
\* prompt, in both dialects.
C26_MessagesAreSystemThenOnePerMessage ==
  d_pc # "start" =>
    LET msgs == SelectSeq(prompt.input, IsMessageItem)
        out == payload.messages
    IN /\ Len(out) = Len(msgs) + 1
       /\ out[1] = [role |-> "system", content |-> prompt.full_instructions]
       /\ \A k \in 1..Len(msgs) :
            /\ out[k + 1].role = msgs[k].role
            /\ out[k + 1].content = JoinedText(msgs[k].content)
       /\ d_pc \in {"loop", "done"}
       /\ d_pc = "done" => (dialect = "copilot" /\ api_key = "none")

C26_Witness ==
  /\ d_pc = "loop"
  /\ dialect = "copilot"
  /\ prompt.input = <<OtherItem,
                      Message("user", <<InputText(<<"a">>), InputImage("url"),
                                        OutputText(<<"b">>)>>)>>
  /\ payload.messages = <<[role |-> "system", content |-> <<"a", "b">>],
                          [role |-> "user", content |-> <<"a", "b">>]>>

-----------------------------------------------------------------------------
(* Claims about the decoder (checked under DecoderSpec) *)

IsPrefix(a, b) == Len(a) <= Len(b) /\ \A i \in 1..Len(a) : a[i] = b[i]
Last(q) == q[Len(q)]

\* A frame data: {"choices":[{"delta":{"content":"<c>"}}]}
DeltaFrames == {Frame(Data(FALSE, DeltaChunk(JStr(<<c>>)))) : c \in Chars}
IsDeltaFrame(r) == r \in DeltaFrames
DeltaFrameText(r) == r.data.doc.f.choices.a[1].f.delta.f.content.s
\* How many delta frames fs starts with
RECURSIVE LeadingDeltas(_)
LeadingDeltas(fs) ==
  IF fs = <<>> \/ ~IsDeltaFrame(Head(fs)) THEN 0 ELSE 1 + LeadingDeltas(Tail(fs))
\* A frame whose payload, trimmed, is [DONE]
IsDoneFrame(r) == r.kind = "frame" /\ r.data.doc = Lit("[DONE]")

\* What the decoder has handed to the channel, in order, with the item of a
\* send suspended on the full channel last.
Emitted == received \o queue \o (IF dec_pc = "send" THEN <<dec_item>> ELSE <<>>)

\* C3: when the frames are k valid delta frames and then [DONE], the caller
\* receives the k OutputItemDone events (role assistant, the frame's text) in
\* frame order and then one Completed with empty response_id: nothing lost,
\* duplicated or reordered, and the decoder reads nothing after the sentinel.
C3_DeltasThenDoneInOrder ==
  LET k == LeadingDeltas(frames)
  IN
    (k < Len(frames) /\ IsDoneFrame(frames[k + 1]))
    =>
    LET expected ==
          [i \in 1..(k + 1) |->
             IF i <= k
             THEN [type |-> "OutputItemDone",
                   item |-> [kind |-> "Message", role |-> "assistant",
                             content |-> <<[kind |-> "OutputText",
                                            text |-> DeltaFrameText(frames[i])]>>],
                   response_id |-> "", err |-> ""]
             ELSE [type |-> "Completed", item |-> NoItem,
                   response_id |-> "", err |-> ""]]
    IN /\ Len(frames) = k + 1
       /\ dec_pc # "wait"
       /\ IsPrefix(received, expected)
       /\ rx_alive => Emitted = expected
       /\ rx_eof => received = expected
       /\ (rx_alive /\ dec_pc = "done") => received \o queue = expected

C3_Witness ==
  /\ Len(frames) = Backlog + 2
  /\ LeadingDeltas(frames) = Backlog + 1
  /\ frames[Backlog + 1] # frames[Backlog]
  /\ frames[Backlog + 2] = Frame(Data(TRUE, Lit("[DONE]")))
  /\ Len(received) = Backlog + 2
  /\ received[Backlog + 2].type = "Completed"
  /\ rx_eof

IsStreamErr(ev) == ev.type = "Err"

\* C10: when the idle timeout elapses while the decoder waits for a frame,
\* the decoder sends exactly one Stream error, sends nothing after it and
\* ends, so the channel closes: once the caller has received the error the
\* channel is empty and the next recv() reports end of queue.
C10_IdleTimeoutIsTerminal ==
  \A i \in 1..Len(frames) :
    frames[i].kind = "timeout" =>
      /\ i = Len(frames)
      /\ dec_pc # "wait"
      /\ dec_pc = "send" => (IsStreamErr(dec_item) /\ dec_then = "done")
      /\ rx_alive =>
           /\ Emitted # <<>>
           /\ IsStreamErr(Last(Emitted))
           /\ Cardinality({j \in 1..Len(Emitted) : IsStreamErr(Emitted[j])}) = 1
      /\ \A j \in 1..Len(received) :
           IsStreamErr(received[j]) =>
             /\ j = Len(received)
             /\ dec_pc = "done"
             /\ queue = <<>>

C10_Witness ==
  /\ Len(frames) = 2
  /\ IsDeltaFrame(frames[1])
  /\ frames[2].kind = "timeout"
  /\ Len(received) = 2
  /\ received[2] = StreamErr("idle timeout waiting for SSE")
  /\ rx_eof

\* C11: the idle timer restarts on every frame read: while the decoder
\* waits, its timer shows no more than the time since the stream last
\* delivered a result (less when a send was suspended in between), so an
\* idle-timeout error appears only after the stream has been silent for
\* the whole idle timeout; frames less than the idle timeout apart never
\* produce it, however long the stream lasts.
C11_IdleTimerRestartsOnEveryFrame ==
  /\ \A i \in 1..Len(frames) : frames[i].kind = "timeout" => idle_for >= IdleTicks
  /\ dec_pc = "wait" => waited <= idle_for

C11_Witness ==
  /\ Len(frames) = Backlog + 2
  /\ frames[Backlog + 1] = Frame(Data(FALSE, Lit("not-json")))
  /\ frames[Backlog + 2] = Frame(Data(FALSE, RoleOnlyChunk))
  /\ elapsed = IdleTicks
  /\ idle_for = IdleTicks - 1
  /\ dec_pc = "wait"

\* An event of one assistant delta
DeltaEvent(text) ==
  [type |-> "OutputItemDone",
   item |-> [kind |-> "Message", role |-> "assistant",
             content |-> <<[kind |-> "OutputText", text |-> text]>>],
   response_id |-> "", err |-> ""]
CompletedEmpty ==
  [type |-> "Completed", item |-> NoItem, response_id |-> "", err |-> ""]

\* A frame that is neither the sentinel nor a delta: its payload is not JSON,
\* or its JSON has no string at choices[0].delta.content
IsSkippedFrame(r) == r.kind = "frame" /\ ~IsDoneFrame(r) /\ ~IsDeltaFrame(r)
WithoutSkipped(fs) == SelectSeq(fs, LAMBDA r : ~IsSkippedFrame(r))

\* What a sequence of stream results is to put on the queue
RECURSIVE ExpectedEmits(_)
ExpectedEmits(fs) ==
  IF fs = <<>> THEN <<>>
  ELSE LET r == Head(fs)
       IN IF r.kind \in {"err", "timeout"}
          THEN <<[type |-> "Err", item |-> NoItem, response_id |-> "",
                  err |-> IF r.kind = "err" THEN "transport"
                          ELSE "idle timeout waiting for SSE"]>>
          ELSE IF r.kind = "end" \/ IsDoneFrame(r) THEN <<CompletedEmpty>>
          ELSE IF IsDeltaFrame(r)
          THEN <<DeltaEvent(DeltaFrameText(r))>> \o ExpectedEmits(Tail(fs))
          ELSE ExpectedEmits(Tail(fs))

\* C12: a frame whose payload is not valid JSON (and not the sentinel), or
\* whose JSON has no string at choices[0].delta.content, puts nothing on the
\* queue, neither event nor error, and the decoder goes on: what it emits is
\* what the frames without the skipped ones call for.
C12_SkippedFramesLeaveNoTrace ==
  /\ rx_alive => Emitted = ExpectedEmits(WithoutSkipped(frames))
  /\ IsPrefix(received, ExpectedEmits(WithoutSkipped(frames)))
  /\ (frames # <<>> /\ IsSkippedFrame(Last(frames))) => dec_pc = "wait"

C12_Witness ==
  /\ sse_dialect = "copilot"
  /\ Len(frames) = Backlog + 2
  /\ frames[Backlog + 1] = Frame(Data(FALSE, Lit("not-json")))
  /\ frames[Backlog + 2] = Frame(Data(FALSE, DeltaChunk(JStr(<<"b">>))))
  /\ Len(received) = Backlog + 1
  /\ received[Backlog + 1] = DeltaEvent(<<"b">>)

\* C13: when the byte stream ends cleanly without [DONE], the decoder emits
\* Completed with empty response_id as its last item, after one
\* OutputItemDone per delta frame read before the close, and no Stream error.
C13_CleanCloseCompletes ==
  \A i \in 1..Len(frames) :
    frames[i].kind = "end" =>
      /\ i = Len(frames)
      /\ dec_pc # "wait"
      /\ \A j \in 1..(i - 1) : ~IsDoneFrame(frames[j])
      /\ rx_alive =>
           /\ Emitted # <<>>
           /\ Last(Emitted) = CompletedEmpty
           /\ \A j \in 1..(Len(Emitted) - 1) : Emitted[j].type = "OutputItemDone"
           /\ Len(Emitted) - 1 = Cardinality({j \in 1..(i - 1) : IsDeltaFrame(frames[j])})
      /\ rx_eof => (received # <<>> /\ Last(received) = CompletedEmpty)

C13_Witness ==
  /\ sse_dialect = "generic"
  /\ frames = <<Frame(Data(FALSE, DeltaChunk(JStr(<<"b">>)))), StreamEnd>>
  /\ received = <<DeltaEvent(<<"b">>), CompletedEmpty>>
  /\ rx_eof

\* C14: once the receiver has been dropped, the decoder ends on its next
\* send attempt: the pass that reads a delta frame after the drop is its
\* last one.
C14_Step ==
  (~rx_alive /\ frames' # frames /\ IsDeltaFrame(Last(frames'))) => dec_pc' = "done"
C14_DecoderEndsOnSendAfterDrop == [][C14_Step]_vars

\* C31: the time a send spends suspended on the full queue is not counted by
\* the idle watchdog.  While a send is suspended the decoder reads nothing
\* and no timer runs; while the queue stays full and the receiver alive the
\* decoder stays suspended, however much time passes; when the send returns
\* the decoder waits for the next frame with a timer that starts at zero,
\* and the idle-timeout error is raised only after the decoder itself has
\* waited for a frame for the whole idle timeout.
C31_Step ==
  /\ dec_pc = "send" =>
       /\ waited = 0 /\ waited' = 0
       /\ frames' = frames
       /\ dec_pc' = "send" \/ dec_pc' = dec_then
       /\ (rx_alive /\ Len(queue) = 16) => (dec_pc' = "send" /\ dec_item' = dec_item)
  /\ (frames' # frames /\ frames'[Len(frames')].kind = "timeout") =>
       (dec_pc = "wait" /\ waited = IdleTicks)
  /\ (dec_pc = "wait" /\ frames' = frames) => (waited' = waited \/ waited' = waited + 1)
C31_SuspendedSendIsNotIdleTime == [][C31_Step]_vars

C31_Witness ==
  /\ dec_pc = "wait"
  /\ rx_alive
  /\ waited = 0
  /\ idle_for > IdleTicks
  /\ Len(frames) = 17
  /\ Len(received \o queue) = 17
  /\ \A i \in 1..Len(queue) : queue[i].type = "OutputItemDone"
  /\ \A i \in 1..Len(received) : received[i].type = "OutputItemDone"

\* C15: the queue never holds more than 16 undelivered items; the decoder
\* is suspended in a send only behind a queue that was full, holding the item
\* of the last frame it read: it has read no frame since, and every item it
\* decoded is received, queued or held by that send.
C15_QueueHoldsAtMostSixteen ==
  /\ Len(queue) <= 16
  /\ dec_pc = "send" => <<dec_item>> = ExpectedEmits(<<Last(frames)>>)
  /\ (dec_pc = "send" /\ received = <<>> /\ rx_alive) => Len(queue) = 16
  /\ rx_alive => Len(Emitted) = Len(ExpectedEmits(frames))

C15_Witness ==
  /\ dec_pc = "send"
  /\ rx_alive
  /\ Len(queue) = 16
  /\ Len(frames) = 17
  /\ received = <<>>

\* A channel or a decoder task exists
HasDecoder == rx_alive \/ dec_pc # "done" \/ frames # <<>>

\* C16 (checked under CallSpec): a call that returns Transport,
\* UnexpectedStatus, RetryLimit or Auth has made no channel and no decoder
\* task; those exist exactly when the call returned the stream, which it
\* does only on a success response; every error item on the channel is a
\* Stream error that the decoder raised on a failed or silent stream, after
\* the call returned; the call itself never returns a Stream error.
C16_DispatchErrorsReturnedStreamErrorsQueued ==
  /\ d_result.kind \in {"none", "Stream", "Transport", "UnexpectedStatus", "RetryLimit", "Auth"}
  /\ d_result.kind = "none" <=> d_pc # "done"
  /\ d_result.kind = "Stream" <=> HasDecoder
  /\ d_result.kind = "Stream" =>
       /\ responses # <<>>
       /\ Last(responses).kind = "http"
       /\ 200 <= Last(responses).status /\ Last(responses).status <= 299
  /\ d_result.kind \in {"Transport", "UnexpectedStatus", "RetryLimit", "Auth"} =>
       (queue = <<>> /\ received = <<>> /\ ~HasDecoder)
  /\ \A i \in 1..Len(Emitted) :
       Emitted[i].type = "Err" =>
         /\ d_result.kind = "Stream"
         /\ Emitted[i].err \in {"transport", "idle timeout waiting for SSE"}
         /\ Last(frames).kind \in {"err", "timeout"}

C16_Witness ==
  /\ dialect = "copilot"
  /\ Len(responses) = 2
  /\ responses[1].status = 503
  /\ d_result.kind = "Stream"
  /\ frames = <<StreamError>>
  /\ received = <<[type |-> "Err", item |-> NoItem, response_id |-> "", err |-> "transport"]>>
  /\ rx_eof

\* The response stream has ended by [DONE] or by a clean close, every result
\* before that being a frame
C28_StreamEndedCleanly ==
  /\ d_result.kind = "Stream"
  /\ frames # <<>>
  /\ Last(frames).kind = "end" \/ IsDoneFrame(Last(frames))
  /\ \A i \in 1..Len(frames) : frames[i].kind \notin {"err", "timeout"}
\* The caller has received one OutputItemDone per delta frame, in frame
\* order, and then Completed
C28_CompletedReceived ==
  LET deltas == SelectSeq(frames, IsDeltaFrame)
  IN /\ Len(received) = Len(deltas) + 1
     /\ \A i \in 1..Len(deltas) : received[i] = DeltaEvent(DeltaFrameText(deltas[i]))
     /\ received[Len(received)] = CompletedEmpty

\* C28 (checked under LiveCallSpec): on a call that returned the stream and
\* whose caller keeps receiving, once the response stream has ended by
\* [DONE] or clean close with no transport error and no idle timeout, the
\* caller eventually has received Completed, preceded by one OutputItemDone
\* for every delta frame the server sent.
C28_CleanStreamEventuallyCompletes ==
  C28_StreamEndedCleanly ~> (~rx_alive \/ C28_CompletedReceived)

C28_Witness ==
  /\ dialect = "copilot"
  /\ d_result.kind = "Stream"
  /\ rx_alive
  /\ Len(frames) = 2
  /\ IsDeltaFrame(frames[1])
  /\ IsDoneFrame(frames[2])
  /\ received = <<DeltaEvent(DeltaFrameText(frames[1])), CompletedEmpty>>

IsTerminalItem(ev) == ev.type = "Completed" \/ ev.type = "Err"

\* C29 (checked under DecoderSpec): while the receiver is alive a decoder
\* hands to the queue OutputItemDone events and then exactly one terminal
\* item, Completed with empty response_id or a Stream error; the terminal
\* item is the last one, the decoder ends with it and the queue closes
\* after it; when the byte stream fails the terminal item is the Stream
\* error and no Completed is sent.
C29_ItemsThenOneTerminalItem ==
  /\ rx_alive =>
       /\ \A i \in 1..Len(Emitted) :
            IF IsTerminalItem(Emitted[i])
            THEN /\ i = Len(Emitted)
                 /\ dec_pc = "done" \/ (dec_pc = "send" /\ dec_then = "done")
                 /\ Emitted[i].type = "Completed" => Emitted[i].response_id = ""
                 /\ Emitted[i].type = "Err" => Emitted[i].err # ""
            ELSE Emitted[i].type = "OutputItemDone"
       /\ dec_pc = "done" => (Emitted # <<>> /\ IsTerminalItem(Last(Emitted)))
       /\ (\E i \in 1..Len(frames) : frames[i].kind = "err") =>
            /\ Last(frames).kind = "err"
            /\ Last(Emitted).type = "Err"
            /\ \A i \in 1..Len(Emitted) : Emitted[i].type # "Completed"
  /\ rx_eof =>
       /\ dec_pc = "done"
       /\ queue = <<>>
       /\ received # <<>> /\ IsTerminalItem(Last(received))

C29_Witness ==
  /\ sse_dialect = "generic"
  /\ Len(frames) = 2
  /\ IsDeltaFrame(frames[1])
  /\ frames[2].kind = "err"
  /\ Len(received) = 2
  /\ received[1].type = "OutputItemDone"
  /\ received[2].type = "Err"
  /\ rx_eof

\* What the decoder that is not running makes of the stream result res
OtherDecoder(res) ==
  IF sse_dialect = "generic" THEN process_github_copilot_sse(res) ELSE process_chat_sse(res)

\* C30 (checked under DecoderSpec): the two decoders cannot be told apart.
\* At every step in which the running decoder reads a result (a frame, a
\* transport error, the timeout, the end of the stream), whatever it read
\* before and whatever the consumer did, it hands to the queue what the
\* other decoder would hand to it for that result, and returns exactly if
\* the other would: so they put the same items on the queue in the same
\* order and end at the same point.
C30_Step ==
  frames' # frames =>
       /\ Len(frames') = Len(frames) + 1
       /\ rx_alive => Emitted' = Emitted \o OtherDecoder(frames'[Len(frames')]).emit
       /\ (dec_pc' = "done" \/ (dec_pc' = "send" /\ dec_then' = "done"))
            <=> OtherDecoder(frames'[Len(frames')]).then = "done"
C30_DecodersAreEquivalent == [][C30_Step]_vars

C30_Witness ==
  /\ sse_dialect = "copilot"
  /\ frames = <<Frame(Data(FALSE, DeltaChunk(JNull))),
                Frame(Data(FALSE, DeltaChunk(JStr(<<"b">>))))>>
  /\ received = <<DeltaEvent(<<"b">>)>>
  /\ rx_alive

-----------------------------------------------------------------------------
(* Claims about the aggregation adapter (checked under AggSpec) *)

IsOutputItemDone(ev) == ev.type = "OutputItemDone"
IsCompleted(ev) == ev.type = "Completed"
IsAssistantMessage(ev) ==
  IsOutputItemDone(ev) /\ ev.item.kind = "Message" /\ ev.item.role = "assistant"
IsOtherRoleMessage(ev) ==
  IsOutputItemDone(ev) /\ ev.item.kind = "Message" /\ ev.item.role # "assistant"
\* An assistant delta as the decoders emit it: one non-empty OutputText
IsDelta(ev) ==
  /\ IsAssistantMessage(ev)
  /\ Len(ev.item.content) = 1
  /\ ev.item.content[1].kind = "OutputText"
  /\ ev.item.content[1].text # <<>>
AggregatedMessage(text) ==
  [type |-> "OutputItemDone",
   item |-> [kind |-> "Message", role |-> "assistant",
             content |-> <<[kind |-> "OutputText", text |-> text]>>],
   response_id |-> "", err |-> ""]

\* The texts of all OutputText items of a content, in order
RECURSIVE AllOutputText(_)
AllOutputText(content) ==
  IF content = <<>> THEN <<>>
  ELSE (IF Head(content).kind = "OutputText" THEN Head(content).text ELSE <<>>)
         \o AllOutputText(Tail(content))

\* The text of the first OutputText item of a content, empty if there is none
RECURSIVE FirstOutputText(_)
FirstOutputText(content) ==
  IF content = <<>> THEN <<>>
  ELSE IF Head(content).kind = "OutputText" THEN Head(content).text
  ELSE FirstOutputText(Tail(content))

\* Concatenation, in order, of all output text of the assistant messages of evs
RECURSIVE AssistantTextAll(_)
AssistantTextAll(evs) ==
  IF evs = <<>> THEN <<>>
  ELSE (IF IsAssistantMessage(Head(evs)) THEN AllOutputText(Head(evs).item.content) ELSE <<>>)
         \o AssistantTextAll(Tail(evs))

\* Concatenation, in order, of the first output text of the assistant messages of evs
RECURSIVE AssistantTextFirst(_)
AssistantTextFirst(evs) ==
  IF evs = <<>> THEN <<>>
  ELSE (IF IsAssistantMessage(Head(evs)) THEN FirstOutputText(Head(evs).item.content) ELSE <<>>)
         \o AssistantTextFirst(Tail(evs))

\* Index of the last Completed among log[1..upto], 0 if none
RECURSIVE LastCompletedUpTo(_, _)
LastCompletedUpTo(log, upto) ==
  IF upto = 0 THEN 0
  ELSE IF IsCompleted(log[upto]) THEN upto
  ELSE LastCompletedUpTo(log, upto - 1)

\* C4: a source that yields one or more non-empty assistant deltas and then
\* Completed(id) makes the adapter yield exactly two events, OutputItemDone
\* with the concatenated text and then Completed(id); no per-delta event is
\* yielded.
C4_DeltasThenCompletedYieldTwo ==
  \A n \in 1..Len(inner_log) :
    (\A i \in 1..n : IsDelta(inner_log[i])) =>
      /\ Len(inner_log) = n => out_log = <<>>
      /\ (Len(inner_log) > n /\ IsCompleted(inner_log[n + 1])) =>
           LET agg == AggregatedMessage(AssistantTextAll(SubSeq(inner_log, 1, n)))
           IN IF Len(out_log) < 2
              THEN /\ out_log = <<agg>>
                   /\ pending_completed = inner_log[n + 1]
                   /\ Len(inner_log) = n + 1
              ELSE /\ SubSeq(out_log, 1, 2) = <<agg, inner_log[n + 1]>>
                   /\ Len(inner_log) = n + 1 =>
                        (Len(out_log) = 2 /\ pending_completed = None)

C4_Witness ==
  /\ Len(inner_log) = 3
  /\ IsDelta(inner_log[1])
  /\ IsDelta(inner_log[2])
  /\ inner_log[1] # inner_log[2]
  /\ inner_log[3] = Completed("r1")
  /\ out_log = <<AggregatedMessage(<<"b", "a">>), Completed("r1")>>

\* C5: whatever the source produces, the adapter yields at most one
\* OutputItemDone before the first Completed it yields and between any two
\* consecutive ones, and every OutputItemDone it yields is an aggregated
\* assistant message: no other OutputItemDone reaches the caller.
C5_AtMostOneOutputItemPerTurn ==
  /\ \A i, j \in 1..Len(out_log) :
       (i < j /\ IsOutputItemDone(out_log[i]) /\ IsOutputItemDone(out_log[j])) =>
         \E k \in (i + 1)..(j - 1) : IsCompleted(out_log[k])
  /\ \A i \in 1..Len(out_log) :
       IsOutputItemDone(out_log[i]) => IsDelta(out_log[i])

C5_Witness ==
  /\ Len(inner_log) = 3
  /\ inner_log[1] = OutputItemDone(OtherItem)
  /\ IsAssistantMessage(inner_log[2])
  /\ Len(inner_log[2].item.content) = 2
  /\ inner_log[3] = Completed("r1")
  /\ Len(out_log) = 2
  /\ IsOutputItemDone(out_log[1])
  /\ out_log[2] = Completed("r1")

\* C6: the text of the OutputItemDone the adapter yields for a turn is the
\* concatenation, in arrival order, of the output text of every assistant
\* OutputItemDone the source produced since the previous Completed, all
\* OutputText items of each message included.
C6_AggregatedTextIsFullConcatenation ==
  pending_completed # None =>
    LET last == Len(inner_log)
        prev == LastCompletedUpTo(inner_log, last - 1)
    IN Last(out_log) =
         AggregatedMessage(AssistantTextAll(SubSeq(inner_log, prev + 1, last - 1)))

\* C7: when the adapter yields the aggregated OutputItemDone on Completed(id)
\* from the source, it holds that Completed(id) in pending_completed, and
\* the next poll_next yields it without polling the source and leaves
\* pending_completed empty.
C7_Step ==
  /\ (out_log' # out_log /\ IsOutputItemDone(Last(out_log'))) =>
       /\ last_poll'.polled > 0
       /\ IsCompleted(Last(inner_log'))
       /\ pending_completed' = Last(inner_log')
  /\ pending_completed # None =>
       /\ last_poll' = [ret |-> pending_completed, polled |-> 0]
       /\ out_log' = Append(out_log, pending_completed)
       /\ inner_log' = inner_log
       /\ pending_completed' = None
       /\ cumulative' = cumulative
C7_PendingCompletedFlushedFirst == [][C7_Step]_vars

C7_Witness ==
  /\ last_poll = [ret |-> Completed("r1"), polled |-> 0]
  /\ Len(out_log) = 2
  /\ IsOutputItemDone(out_log[1])
  /\ pending_completed = None

\* C8 as stated: an OutputItemDone of another role than assistant is yielded
\* to the consumer unchanged.
C8_OtherRoleForwarded ==
  \A i \in 1..Len(inner_log) :
    IsOtherRoleMessage(inner_log[i]) => \E j \in 1..Len(out_log) : out_log[j] = inner_log[i]

\* C8 as amended: an OutputItemDone of another role than assistant is
\* swallowed: it is never yielded, and it leaves cumulative unchanged, which
\* holds the first OutputText of each assistant message since the last
\* Completed and nothing else.
C8_OtherRoleSwallowed ==
  /\ \A j \in 1..Len(out_log) : ~IsOtherRoleMessage(out_log[j])
  /\ LET last == Len(inner_log)
         prev == LastCompletedUpTo(inner_log, last)
     IN cumulative = AssistantTextFirst(SubSeq(inner_log, prev + 1, last))

C8_Witness ==
  /\ Len(inner_log) = 3
  /\ inner_log[1] = OutputItemDone(Message("user", <<OutputText(<<"a">>)>>))
  /\ IsDelta(inner_log[2])
  /\ IsCompleted(inner_log[3])
  /\ out_log = <<AggregatedMessage(<<"b">>)>>

YieldsErr == out_log' # out_log /\ Last(out_log').type = "Err"
NewInner == SubSeq(inner_log', Len(inner_log) + 1, Len(inner_log'))
Front(q) == SubSeq(q, 1, Len(q) - 1)

\* C9 as stated: a poll_next that yields the source's error leaves
\* cumulative and pending_completed as they were before that poll_next.
C9_ErrorLeavesStateAsBeforePull ==
  [][YieldsErr => (cumulative' = cumulative /\ pending_completed' = pending_completed)]_vars

\* C9 as amended: an error of the source is yielded by the poll_next that
\* polled it, and yielding it changes nothing: pending_completed stays
\* empty, and cumulative is its value before the call extended by the text
\* of the deltas that call consumed before the error; the buffered text is
\* part of the next aggregated message.
C9_Step ==
  /\ YieldsErr =>
       /\ NewInner # <<>>
       /\ Last(NewInner) = Last(out_log')
       /\ \A i \in 1..(Len(NewInner) - 1) : IsOutputItemDone(NewInner[i])
       /\ cumulative' = cumulative \o AssistantTextFirst(Front(NewInner))
       /\ pending_completed = None
       /\ pending_completed' = None
  /\ Cardinality({i \in 1..Len(inner_log') : inner_log'[i].type = "Err"})
       = Cardinality({i \in 1..Len(out_log') : out_log'[i].type = "Err"})
  /\ (out_log' # out_log /\ IsOutputItemDone(Last(out_log'))) =>
       Last(out_log') =
         AggregatedMessage(cumulative \o AssistantTextFirst(Front(NewInner)))
C9_ErrorKeepsBufferedText == [][C9_Step]_vars

C9_Witness ==
  /\ inner_log = <<AssistantDelta(<<"a">>), StreamErr("inner")>>
  /\ out_log = <<StreamErr("inner")>>
  /\ last_poll = [ret |-> StreamErr("inner"), polled |-> 2]
  /\ cumulative = <<"a">>

\* The Completed events of a log, in order
CompletedOf(log) == SelectSeq(log, IsCompleted)

\* C32: the Completed events the adapter has yielded, followed by the one it
\* holds in pending_completed if it holds one, are exactly the Completed
\* events the wrapped source has produced, with their response_ids and in
\* their order: none made up, none lost, none yielded twice; and while
\* pending_completed holds a value, cumulative is empty.
C32_EveryCompletedYieldedOnce ==
  /\ CompletedOf(out_log)
       \o (IF pending_completed # None THEN <<pending_completed>> ELSE <<>>)
     = CompletedOf(inner_log)
  /\ pending_completed # None =>
       /\ cumulative = <<>>
       /\ pending_completed.type = "Completed"
       /\ pending_completed = inner_log[Len(inner_log)]

C32_Witness ==
  /\ Len(inner_log) = 3
  /\ inner_log[1].type = "OutputItemDone"
  /\ inner_log[2] = [type |-> "Completed", item |-> NoItem, response_id |-> "r1", err |-> ""]
  /\ inner_log[3] = [type |-> "Completed", item |-> NoItem, response_id |-> "", err |-> ""]
  /\ Len(out_log) = 3
  /\ out_log[1].type = "OutputItemDone"
  /\ out_log[2] = inner_log[2]
  /\ out_log[3] = inner_log[3]
  /\ pending_completed = None

=============================================================================
